---- MODULE Spec2Model ----
(***************************************************************************)
(* Retrieval subsystem of the RAG chatbot: the chunker of                  *)
(* document_processor.py, the chunk store of database.py and the context   *)
(* assembly of rag_system.py / web_search_integration.py.                  *)
(*                                                                         *)
(* A Python str is a sequence of one-character strings; Python indices are *)
(* 0-based and are kept 0-based in start/end, so text[i] of the source is  *)
(* text[i + 1] here.                                                       *)
(***************************************************************************)
EXTENDS Integers, Sequences, FiniteSets, TLC

\* ------------------------------------------------------------------ bounds
MaxLen == 6
MaxChunkSize == 3
MaxOverlap == 3

\* The loop of _split_text_into_chunks is cut after this many iterations: a
\* terminating run over a text of MaxLen characters needs fewer.
MaxIter == MaxLen + 2

Alphabet == {"a", ".", " ", "\n"}
Whitespace == {" ", "\n", "\t"}

VARIABLES
  text,           \* the argument of _split_text_into_chunks
  chunk_size,     \* self.chunk_size
  chunk_overlap,  \* self.chunk_overlap
  pc,             \* position in _split_text_into_chunks
  start,          \* the local start
  chunks,         \* the local chunks; the returned list once pc = "done"
  ranges,         \* history: the (start, end) slice bounds of every iteration
  documents,      \* the rows of table documents, in rowid order
  conversations,  \* the rows of table conversations, in rowid order
  last,           \* the last call made on the store or the retriever: its
                  \* name, arguments and returned value
  embedding_model,        \* self.embedding_model: "simple" or the learned model
  hash_seed,              \* the secret that keys hash() of a str in this process
  web_search_importable,  \* whether import web_search_integration succeeds
  use_postgres,           \* self.use_postgres of DatabaseManager
  postgres_manager,       \* self.postgres_manager: "unset" or "initialised"
  db_path,                \* self.db_path: "unset" or the file of the tables
  uploads,                \* the process_document or process_url call of every
                          \* session: its position, locals and returned value
  web_scraping_available  \* WEB_SCRAPING_AVAILABLE of document_processor

chunkVars == <<text, chunk_size, chunk_overlap, pc, start, chunks, ranges>>

storeVars == <<documents, conversations, last>>

ragVars == <<embedding_model, hash_seed, web_search_importable, use_postgres>>

appVars == <<postgres_manager, db_path, uploads, web_scraping_available>>

vars == <<chunkVars, storeVars, ragVars, appVars>>

\* The sessions of the application: every browser session runs the script
\* of app.py with its own DocumentProcessor on the one database.
MaxSessions == 2

Sessions == 1..MaxSessions

\* No session is in process_document.
NoUploads == [session \in Sessions |-> [pc |-> "idle", n |-> 0]]

\* ----------------------------------------------------------- str helpers
Min(a, b) == IF a < b THEN a ELSE b

SetMax(S) == CHOOSE x \in S : \A y \in S : y <= x

SetMin(S) == CHOOSE x \in S : \A y \in S : x <= y

\* All strings over Alphabet of length at most n.
Strings(n) == UNION {[1..k -> Alphabet] : k \in 0..n}

\* s[lo:hi] for 0 <= lo (Python clamps hi to len(s)).
Slice(s, lo, hi) ==
  LET h == Min(hi, Len(s))
  IN IF lo >= h THEN <<>> ELSE SubSeq(s, lo + 1, h)

\* s.find(ch, lo, hi) in the place of rfind: the lowest index.
RFindBug(s, ch, lo, hi) ==
  LET found == {i \in lo..(Min(hi, Len(s)) - 1) : s[i + 1] = ch}
  IN IF found = {} THEN -1 ELSE SetMin(found)

\* s.rfind(ch, lo, hi): the highest index in [lo, min(hi, len(s))) holding ch,
\* or -1.
RFind(s, ch, lo, hi) ==
  LET found == {i \in lo..(Min(hi, Len(s)) - 1) : s[i + 1] = ch}
  IN IF found = {} THEN -1 ELSE SetMax(found)

RECURSIVE SkipLeft(_, _)
\* The first position from i on that holds no whitespace, or Len(s) + 1.
SkipLeft(s, i) ==
  IF i > Len(s) THEN i
  ELSE IF s[i] \in Whitespace THEN SkipLeft(s, i + 1)
  ELSE i

RECURSIVE SkipRight(_, _)
\* The last position up to i that holds no whitespace, or 0.
SkipRight(s, i) ==
  IF i < 1 THEN i
  ELSE IF s[i] \in Whitespace THEN SkipRight(s, i - 1)
  ELSE i

\* The 1-based positions of s that s.strip() keeps.
StripSpan(s) == SkipLeft(s, 1)..SkipRight(s, Len(s))

\* s.strip()
Strip(s) == SubSeq(s, SkipLeft(s, 1), SkipRight(s, Len(s)))

\* ---------------------------------------------------------------- chunker
\* The end of the chunk starting at st: lines 396-408.
ChunkEndBug(s, st, size) == st + size + 1

ChunkEnd(s, st, size) ==
  LET end == st + size
      sentence_end == RFind(s, ".", st, end)
      word_end == RFind(s, " ", st, end)
  IN IF end < Len(s)
       THEN IF sentence_end > st THEN sentence_end + 1
            ELSE IF word_end > st THEN word_end
            ELSE end
       ELSE end

\* The next start: lines 415-419.
NextStartBug(end, overlap) == end + 1

NextStart(end, overlap) ==
  IF end - overlap <= 0 THEN end ELSE end - overlap

\* if len(text) <= self.chunk_size: return [text]
SplitShort ==
  /\ pc = "call"
  /\ Len(text) <= chunk_size
  /\ chunks' = <<text>>
  /\ ranges' = <<[start |-> 0, end |-> Len(text)]>>
  /\ pc' = "done"
  /\ UNCHANGED <<text, chunk_size, chunk_overlap, start>>
  /\ UNCHANGED <<storeVars, ragVars, appVars>>

\* chunks = []; start = 0
SplitLong ==
  /\ pc = "call"
  /\ Len(text) > chunk_size
  /\ chunks' = <<>>
  /\ start' = 0
  /\ pc' = "loop"
  /\ UNCHANGED <<text, chunk_size, chunk_overlap, ranges>>
  /\ UNCHANGED <<storeVars, ragVars, appVars>>

\* One iteration of: while start < len(text)
SplitIterate ==
  /\ pc = "loop"
  /\ start < Len(text)
  /\ Len(ranges) < MaxIter
  /\ LET end == ChunkEnd(text, start, chunk_size)
         chunk == Strip(Slice(text, start, end))
     IN /\ chunks' = IF chunk # <<>> THEN Append(chunks, chunk) ELSE chunks
        /\ ranges' = Append(ranges, [start |-> start, end |-> end])
        /\ start' = NextStart(end, chunk_overlap)
  /\ UNCHANGED <<text, chunk_size, chunk_overlap, pc>>
  /\ UNCHANGED <<storeVars, ragVars, appVars>>

\* The loop condition fails: return chunks
SplitReturn ==
  /\ pc = "loop"
  /\ start >= Len(text)
  /\ pc' = "done"
  /\ UNCHANGED <<text, chunk_size, chunk_overlap, start, chunks, ranges>>
  /\ UNCHANGED <<storeVars, ragVars, appVars>>

InitChunk ==
  /\ text \in Strings(MaxLen)
  /\ chunk_size \in 1..MaxChunkSize
  /\ chunk_overlap \in 0..MaxOverlap
  /\ pc = "call"
  /\ start = 0
  /\ chunks = <<>>
  /\ ranges = <<>>
  /\ documents = <<>>
  /\ conversations = <<>>
  /\ last = [op |-> "none"]
  /\ embedding_model = "simple"
  /\ hash_seed = 0
  /\ web_search_importable = TRUE
  /\ use_postgres = FALSE
  /\ postgres_manager = "unset"
  /\ db_path = "rag_database.db"
  /\ uploads = NoUploads
  /\ web_scraping_available = TRUE

NextChunk == SplitShort \/ SplitLong \/ SplitIterate \/ SplitReturn

SpecChunk == InitChunk /\ [][NextChunk]_vars

\* ------------------------------------------------------------- embeddings
MaxDocs == 3
MaxTopK == 2

\* np.zeros(384): the length of every embedding.
EmbeddingDim == 384

\* An np.ndarray of floats is [den, dim, num]: dim is its length and element
\* i is num[i + 1] / den, exactly, for the i + 1 in DOMAIN num and 0 for the
\* others (num holds the non-zero elements only). No array of the model has a
\* negative element.
Vec(a, b, c, d) ==
  LET v == <<a, b, c, d>>
  IN [den |-> 1, dim |-> EmbeddingDim,
      num |-> [i \in {j \in 1..4 : v[j] # 0} |-> v[i]]]

ZeroVec == Vec(0, 0, 0, 0)

\* Embeddings handed to the store and to search by their callers. The cosines
\* among them are 0.3 and 1, and undefined against ZeroVec.
Embeddings == {ZeroVec, Vec(1, 0, 0, 0), Vec(2, 0, 0, 0), Vec(3, 9, 3, 1)}

RECURSIVE SumOver(_, _)
\* The sum of f[i] over the finite set S.
SumOver(f, S) ==
  IF S = {} THEN 0
  ELSE LET i == CHOOSE x \in S : TRUE IN f[i] + SumOver(f, S \ {i})

\* The numerators' part of np.dot(a, b): np.dot(a, b) is this over a.den * b.den.
DotNum(a, b) ==
  LET both == DOMAIN a.num \cap DOMAIN b.num
  IN SumOver([i \in both |-> a.num[i] * b.num[i]], both)

\* The float np.dot(a, b) / (np.linalg.norm(a) * np.linalg.norm(b)) is kept as
\* [dot, nn]: its value is dot / sqrt(nn), the denominators of a and b cancel,
\* and nn = 0 is the 0.0 / 0.0 of a zero vector, which numpy evaluates to nan
\* (a RuntimeWarning, no exception).
CosineSimilarityBug(a, b) ==
  IF DotNum(a, a) * DotNum(b, b) = 0
    THEN [dot |-> 0, nn |-> 1]
    ELSE [dot |-> DotNum(a, b) + 1, nn |-> DotNum(a, a) * DotNum(b, b)]

CosineSimilarity(a, b) ==
  [dot |-> DotNum(a, b), nn |-> DotNum(a, a) * DotNum(b, b)]

IsNaN(x) == x.nn = 0

Sign(n) == IF n > 0 THEN 1 ELSE IF n < 0 THEN -1 ELSE 0

RECURSIVE RatLt(_, _, _, _)
\* p1 / q1 < p2 / q2 for p1, p2 >= 0 and q1, q2 > 0, by the continued
\* fractions of the two sides: no product is formed, so that the numbers
\* stay within the integers TLC computes with.
RatLt(p1, q1, p2, q2) ==
  IF p1 \div q1 # p2 \div q2 THEN p1 \div q1 < p2 \div q2
  ELSE IF p2 % q2 = 0 THEN FALSE
  ELSE IF p1 % q1 = 0 THEN TRUE
  ELSE RatLt(q2, p2 % q2, q1, p1 % q1)

\* x < y on floats: False when either is nan. The value of [dot, nn] is
\* dot / sqrt(nn), so values of one sign compare as their squares do.
FloatLt(x, y) ==
  /\ ~IsNaN(x)
  /\ ~IsNaN(y)
  /\ IF x.dot < 0 /\ y.dot < 0
       THEN RatLt(y.dot * y.dot, y.nn, x.dot * x.dot, x.nn)
       ELSE IF x.dot < 0 \/ y.dot < 0 THEN x.dot < 0
       ELSE RatLt(x.dot * x.dot, x.nn, y.dot * y.dot, y.nn)

\* x == y on floats: False when either is nan.
FloatEq(x, y) ==
  /\ ~IsNaN(x)
  /\ ~IsNaN(y)
  /\ ~FloatLt(x, y)
  /\ ~FloatLt(y, x)

\* x > num / den on floats, for num, den > 0.
FloatGtRatio(x, num, den) ==
  /\ ~IsNaN(x)
  /\ x.dot > 0
  /\ RatLt(num * num, den * den, x.dot * x.dot, x.nn)

\* ------------------------------------------------------------- list.sort
\* list.sort of CPython on fewer than 64 elements: one run found by
\* count_run, then binarysort of the rest into it. lt(x, y) is the
\* comparison of the keys.
Reverse(s) == [i \in 1..Len(s) |-> s[Len(s) + 1 - i]]

\* The keys of the hits: key=lambda x: x[2]
KeyLt(x, y) == FloatLt(x.similarity, y.similarity)

RECURSIVE RunLength(_, _, _)
\* count_run: s[1..n] is a run (descending iff desc); extend it.
RunLength(s, n, desc) ==
  IF n < Len(s) /\ (KeyLt(s[n + 1], s[n]) <=> desc)
    THEN RunLength(s, n + 1, desc)
    ELSE n

RECURSIVE BinaryPosition(_, _, _, _)
\* binarysort's search of pivot's place in the sorted s[1..r]: l and r are
\* 0-based as in listobject.c.
BinaryPosition(s, pivot, l, r) ==
  IF l < r
    THEN LET p == l + ((r - l) \div 2)
         IN IF KeyLt(pivot, s[p + 1])
              THEN BinaryPosition(s, pivot, l, p)
              ELSE BinaryPosition(s, pivot, p + 1, r)
    ELSE l

RECURSIVE BinarySort(_, _)
\* binarysort: s[1..n] is sorted; insert s[n + 1], ... one by one.
BinarySort(s, n) ==
  IF n >= Len(s) THEN s
  ELSE LET pivot == s[n + 1]
           l == BinaryPosition(s, pivot, 0, n)
           moved == [i \in 1..Len(s) |->
                       IF i <= l THEN s[i]
                       ELSE IF i = l + 1 THEN pivot
                       ELSE IF i <= n + 1 THEN s[i - 1]
                       ELSE s[i]]
       IN BinarySort(moved, n + 1)

ListSort(s) ==
  IF Len(s) < 2 THEN s
  ELSE LET desc == KeyLt(s[2], s[1])
           n == RunLength(s, 2, desc)
           run == [i \in 1..Len(s) |->
                     IF desc /\ i <= n THEN s[n + 1 - i] ELSE s[i]]
       IN BinarySort(run, n)

\* similarities.sort(key=lambda x: x[2], reverse=True): CPython reverses the
\* list, sorts it and reverses it again, which keeps equal keys in order.
SortBySimilarityBug(s) == ListSort(s)

SortBySimilarity(s) == Reverse(ListSort(Reverse(s)))

\* s[:k] for k >= 0
Take(s, k) == IF k >= Len(s) THEN s ELSE SubSeq(s, 1, k)

\* ------------------------------------------------------------ chunk store
Filenames == {<<"a", ".", "t", "x", "t">>, <<"b", ".", "t", "x", "t">>}

Contents == {<<"h", "e", "l", "l", "o">>}

ChunkIndexes == {0}

\* (filename, content, similarity) for every row, in the order of the SELECT.
Similarities(rows, query_embedding) ==
  [i \in 1..Len(rows) |->
     [filename |-> rows[i].filename,
      content |-> rows[i].content,
      similarity |-> CosineSimilarity(query_embedding, rows[i].embedding)]]

\* The value search_similar_chunks returns when the database answers.
SimilarChunksBug(rows, query_embedding, top_k) ==
  Take(SortBySimilarity(Similarities(rows, query_embedding)), top_k + 1)

SimilarChunks(rows, query_embedding, top_k) ==
  IF rows = <<>> THEN <<>>
  ELSE Take(SortBySimilarity(Similarities(rows, query_embedding)), top_k)

\* The body of store_document_chunk: the INSERT commits and True is
\* returned, or the database raises, nothing is committed and False is
\* returned.
InsertDocumentChunk(filename, content, chunk_index, embedding) ==
  /\ Len(documents) < MaxDocs
  /\ \/ /\ documents' = Append(documents,
                               [filename |-> filename, content |-> content,
                                chunk_index |-> chunk_index,
                                embedding |-> embedding])
        /\ last' = [op |-> "store_document_chunk", filename |-> filename,
                    content |-> content, chunk_index |-> chunk_index,
                    embedding |-> embedding, result |-> TRUE]
     \/ /\ documents' = documents
        /\ last' = [op |-> "store_document_chunk", filename |-> filename,
                    content |-> content, chunk_index |-> chunk_index,
                    embedding |-> embedding, result |-> FALSE]
  /\ UNCHANGED conversations
  /\ UNCHANGED <<postgres_manager, db_path, web_scraping_available>>
  /\ UNCHANGED <<chunkVars, ragVars>>

\* A store_document_chunk that returns False after the INSERT was committed.
StoreDocumentChunkBug(filename, content, chunk_index, embedding) ==
  /\ Len(documents) < MaxDocs
  /\ documents' = Append(documents,
                         [filename |-> filename, content |-> content,
                          chunk_index |-> chunk_index,
                          embedding |-> embedding])
  /\ \E result \in BOOLEAN :
       last' = [op |-> "store_document_chunk", filename |-> filename,
                content |-> content, chunk_index |-> chunk_index,
                embedding |-> embedding, result |-> result]
  /\ UNCHANGED conversations
  /\ UNCHANGED <<chunkVars, ragVars, appVars>>

\* store_document_chunk, called by itself.
StoreDocumentChunk(filename, content, chunk_index, embedding) ==
  /\ InsertDocumentChunk(filename, content, chunk_index, embedding)
  /\ UNCHANGED uploads

\* An np.dot that accepts arrays of any two lengths.
DotRaisesBug(rows, query_embedding) == FALSE

\* np.dot(a, b) raises ValueError when the lengths of a and b differ: the
\* loop over the rows raises if some stored embedding has another length
\* than the query embedding.
DotRaises(rows, query_embedding) ==
  \E i \in 1..Len(rows) : rows[i].embedding.dim # query_embedding.dim

\* The try block of search_similar_chunks: read_raises tells whether the
\* database raises while the rows are read. After any exception the except
\* branch returns [].
SearchOutcome(rows, query_embedding, top_k, read_raises) ==
  IF read_raises \/ DotRaises(rows, query_embedding)
    THEN [raised |-> TRUE, result |-> <<>>]
    ELSE [raised |-> FALSE,
          result |-> SimilarChunks(rows, query_embedding, top_k)]

\* search_similar_chunks: the ranking of all rows, or [] when the database
\* or np.dot raises.
SearchSimilarChunks(query_embedding, top_k) ==
  /\ \E read_raises \in BOOLEAN :
       LET outcome ==
             SearchOutcome(documents, query_embedding, top_k, read_raises)
       IN last' = [op |-> "search_similar_chunks",
                   query_embedding |-> query_embedding, top_k |-> top_k,
                   raised |-> outcome.raised, result |-> outcome.result]
  /\ UNCHANGED <<documents, conversations>>
  /\ UNCHANGED <<chunkVars, ragVars, appVars>>

\* DELETE FROM documents and DELETE FROM conversations.
ClearDocumentsBug ==
  /\ \/ /\ documents' = <<>>
        /\ conversations' = <<>>
        /\ last' = [op |-> "clear_documents", result |-> TRUE]
     \/ /\ documents' = documents
        /\ conversations' = conversations
        /\ last' = [op |-> "clear_documents", result |-> FALSE]
  /\ UNCHANGED <<chunkVars, ragVars, appVars>>

\* clear_documents: DELETE FROM documents commits and True is returned, or
\* sqlite3 raises and False is returned.
ClearDocuments ==
  /\ \/ /\ documents' = <<>>
        /\ last' = [op |-> "clear_documents", result |-> TRUE]
     \/ /\ documents' = documents
        /\ last' = [op |-> "clear_documents", result |-> FALSE]
  /\ UNCHANGED conversations
  /\ UNCHANGED <<chunkVars, ragVars, appVars>>

\* SELECT COUNT(*) FROM documents: the number of rows.
DocumentCountBug(rows) == Len(rows)

\* SELECT COUNT(DISTINCT filename) FROM documents
DocumentCount(rows) == Cardinality({rows[i].filename : i \in 1..Len(rows)})

\* A get_document_count that deletes the row it counted first.
GetDocumentCountBug ==
  /\ last' = [op |-> "get_document_count", raised |-> FALSE,
              result |-> DocumentCount(documents)]
  /\ documents' = IF documents = <<>> THEN <<>> ELSE Tail(documents)
  /\ UNCHANGED conversations
  /\ UNCHANGED <<chunkVars, ragVars, appVars>>

\* get_document_count: the count of the query, or 0 when sqlite3 raises.
GetDocumentCount ==
  /\ \/ last' = [op |-> "get_document_count", raised |-> FALSE,
                 result |-> DocumentCount(documents)]
     \/ last' = [op |-> "get_document_count", raised |-> TRUE, result |-> 0]
  /\ UNCHANGED <<documents, conversations>>
  /\ UNCHANGED <<chunkVars, ragVars, appVars>>

\* The store after DatabaseManager() on a new database file, with no call of
\* the chunker in progress.
Init ==
  /\ text = <<>>
  /\ chunk_size = 500
  /\ chunk_overlap = 50
  /\ pc = "idle"
  /\ start = 0
  /\ chunks = <<>>
  /\ ranges = <<>>
  /\ documents = <<>>
  /\ conversations = <<>>
  /\ last = [op |-> "none"]
  /\ embedding_model = "simple"
  /\ hash_seed = 0
  /\ web_search_importable = TRUE
  /\ use_postgres = FALSE
  /\ postgres_manager = "unset"
  /\ db_path = "rag_database.db"
  /\ uploads = NoUploads
  /\ web_scraping_available = TRUE

Next ==
  \/ \E filename \in Filenames, content \in Contents,
        chunk_index \in ChunkIndexes, embedding \in Embeddings :
       StoreDocumentChunk(filename, content, chunk_index, embedding)
  \/ \E query_embedding \in Embeddings, top_k \in 0..MaxTopK :
       SearchSimilarChunks(query_embedding, top_k)
  \/ ClearDocuments
  \/ GetDocumentCount

Spec == Init /\ [][Next]_vars

\* ------------------------------------------------------------ str methods
UpperCase ==
            <<"A", "B", "C", "D", "E", "F", "G", "H", "I", "J", "K", "L", "M",
              "N", "O", "P", "Q", "R", "S", "T", "U", "V", "W", "X", "Y",
              "Z">>

LowerCase ==
            <<"a", "b", "c", "d", "e", "f", "g", "h", "i", "j", "k", "l", "m",
              "n", "o", "p", "q", "r", "s", "t", "u", "v", "w", "x", "y",
              "z">>

Digits == <<"0", "1", "2", "3", "4", "5", "6", "7", "8", "9">>

LowerChar(c) ==
  IF \E i \in 1..26 : UpperCase[i] = c
    THEN LowerCase[CHOOSE i \in 1..26 : UpperCase[i] = c]
    ELSE c

\* s.lower()
Lower(s) == [i \in 1..Len(s) |-> LowerChar(s[i])]

\* sub in s
Contains(s, sub) ==
  \/ sub = <<>>
  \/ \E o \in 1..(Len(s) - Len(sub) + 1) :
       s[o] = sub[1] /\ SubSeq(s, o, o + Len(sub) - 1) = sub

RECURSIVE Ascending(_)
\* The elements of a finite set of integers, lowest first.
Ascending(S) ==
  IF S = {} THEN <<>> ELSE <<SetMin(S)>> \o Ascending(S \ {SetMin(S)})

\* s.split(): the maximal runs of characters that are not whitespace.
Words(s) ==
  LET starts == {i \in 1..Len(s) :
                   s[i] \notin Whitespace /\ (i = 1 \/ s[i - 1] \in Whitespace)}
      stop(i) == SetMax({j \in i..Len(s) :
                           \A k \in i..j : s[k] \notin Whitespace})
      order == Ascending(starts)
  IN [w \in 1..Len(order) |-> SubSeq(s, order[w], stop(order[w]))]

RECURSIVE Join(_, _)
\* sep.join(parts)
Join(parts, sep) ==
  IF parts = <<>> THEN <<>>
  ELSE IF Len(parts) = 1 THEN parts[1]
  ELSE parts[1] \o sep \o Join(Tail(parts), sep)

\* --------------------------------------------------------------- embedder
\* hash(word) % 382 and words[:50] of _simple_text_embedding.
HashBuckets == 382

MaxHashedWords == 50

HashSeeds == {0, 1}

RECURSIVE Mix(_, _)
Mix(h, s) ==
  IF s = <<>> THEN h
  ELSE LET c == IF \E i \in 1..26 : LowerCase[i] = s[1]
                  THEN CHOOSE i \in 1..26 : LowerCase[i] = s[1]
                  ELSE 27
       IN Mix((h * 31 + c) % 65521, Tail(s))

\* hash(word): CPython keys the hash of a str with a secret drawn when the
\* process starts; Mix stands for its SipHash, seed for the secret.
StrHash(seed, word) == Mix(7 + 7919 * seed, word)

\* _simple_text_embedding: the elements are kept over the denominator
\* 1000 * len(words), so min(len(words) / 100.0, 1.0) is
\* min(10 * n * n, 1000 * n) and 1.0 / len(words) is 1000.
SimpleTextEmbedding(seed, s) ==
  LET lowered == Lower(s)
      words == Words(lowered)
      n == Len(words)
      hashed == Take(words, MaxHashedWords)
      word_hash(k) == StrHash(seed, hashed[k]) % HashBuckets
      hits(j) == Cardinality({k \in 1..Len(hashed) : word_hash(k) = j})
  IN IF n = 0
       THEN [den |-> 1, dim |-> EmbeddingDim, num |-> <<>>]
       ELSE [den |-> 1000 * n, dim |-> EmbeddingDim,
             num |-> [i \in {1, 2} \cup {word_hash(k) + 3 : k \in 1..Len(hashed)} |->
                        IF i = 1 THEN Min(10 * n * n, 1000 * n)
                        ELSE IF i = 2 THEN Min(Len(lowered) * n, 1000 * n)
                        ELSE 1000 * hits(i - 3)]]

\* The vectors self.embedding_model.encode returns in the model.
EncodeOutputs == {Vec(1, 0, 0, 0)}

\* A get_embedding whose except branch returns np.zeros(0).
GetEmbeddingBug(s, encode_raises, encoded) ==
  IF embedding_model = "simple" THEN SimpleTextEmbedding(hash_seed, s)
  ELSE IF encode_raises THEN [den |-> 1, dim |-> 0, num |-> <<>>]
  ELSE encoded

\* get_embedding: on the learned path encode returns encoded or raises, and
\* the except branch computes the hash embedding, as the simple path does.
GetEmbedding(s, encode_raises, encoded) ==
  IF embedding_model = "simple" \/ encode_raises
    THEN SimpleTextEmbedding(hash_seed, s)
    ELSE encoded

\* -------------------------------------------------------- knowledge texts
\* The branch of lines 66-87: its terms, in the order any() tries them,
\* and its knowledge_addition.
MachineLearningTopic ==
  [terms |->
     <<<<"m", "a", "c", "h", "i", "n", "e", " ", "l", "e", "a", "r", "n", "i",
         "n", "g">>,
       <<"a", "i">>,
       <<"a", "r", "t", "i", "f", "i", "c", "i", "a", "l", " ", "i", "n", "t",
         "e", "l", "l", "i", "g", "e", "n", "c", "e">>,
       <<"n", "e", "u", "r", "a", "l", " ", "n", "e", "t", "w", "o", "r",
         "k">>,
       <<"d", "e", "e", "p", " ", "l", "e", "a", "r", "n", "i", "n", "g">>,
       <<"a", "l", "g", "o", "r", "i", "t", "h", "m">>,
       <<"m", "o", "d", "e", "l">>,
       <<"t", "r", "a", "i", "n", "i", "n", "g">>,
       <<"h", "o", "w", " ", "d", "o", "e", "s", " ", "m", "a", "c", "h", "i",
         "n", "e", " ", "l", "e", "a", "r", "n", "i", "n", "g">>,
       <<"h", "o", "w", " ", "m", "a", "c", "h", "i", "n", "e", " ", "l", "e",
         "a", "r", "n", "i", "n", "g">>>>,
   text |->
     <<"*", "*", "M", "a", "c", "h", "i", "n", "e", " ", "L", "e", "a", "r",
       "n", "i", "n", "g", " ", "&", " ", "A", "I", "*", "*", "\n", "\n", "M",
       "a", "c", "h", "i", "n", "e", " ", "l", "e", "a", "r", "n", "i", "n",
       "g", " ", "i", "s", " ", "a", " ", "m", "e", "t", "h", "o", "d", " ",
       "o", "f", " ", "d", "a", "t", "a", " ", "a", "n", "a", "l", "y", "s",
       "i", "s", " ", "t", "h", "a", "t", " ", "a", "u", "t", "o", "m", "a",
       "t", "e", "s", " ", "a", "n", "a", "l", "y", "t", "i", "c", "a", "l",
       " ", "m", "o", "d", "e", "l", " ", "b", "u", "i", "l", "d", "i", "n",
       "g", ".", " ", "S", "y", "s", "t", "e", "m", "s", " ", "l", "e", "a",
       "r", "n", " ", "f", "r", "o", "m", " ", "d", "a", "t", "a", ",", " ",
       "i", "d", "e", "n", "t", "i", "f", "y", " ", "p", "a", "t", "t", "e",
       "r", "n", "s", ",", " ", "a", "n", "d", " ", "m", "a", "k", "e", " ",
       "d", "e", "c", "i", "s", "i", "o", "n", "s", " ", "w", "i", "t", "h",
       " ", "m", "i", "n", "i", "m", "a", "l", " ", "h", "u", "m", "a", "n",
       " ", "i", "n", "t", "e", "r", "v", "e", "n", "t", "i", "o", "n", ".",
       "\n", "\n", "*", "*", "C", "o", "r", "e", " ", "C", "o", "n", "c", "e",
       "p", "t", "s", ":", "*", "*", "\n", "-", " ", "*", "*", "S", "u", "p",
       "e", "r", "v", "i", "s", "e", "d", " ", "L", "e", "a", "r", "n", "i",
       "n", "g", "*", "*", ":", " ", "T", "r", "a", "i", "n", "i", "n", "g",
       " ", "o", "n", " ", "l", "a", "b", "e", "l", "e", "d", " ", "d", "a",
       "t", "a", " ", "(", "c", "l", "a", "s", "s", "i", "f", "i", "c", "a",
       "t", "i", "o", "n", ",", " ", "r", "e", "g", "r", "e", "s", "s", "i",
       "o", "n", ")", "\n", "-", " ", "*", "*", "U", "n", "s", "u", "p", "e",
       "r", "v", "i", "s", "e", "d", " ", "L", "e", "a", "r", "n", "i", "n",
       "g", "*", "*", ":", " ", "F", "i", "n", "d", "i", "n", "g", " ", "h",
       "i", "d", "d", "e", "n", " ", "p", "a", "t", "t", "e", "r", "n", "s",
       " ", "i", "n", " ", "u", "n", "l", "a", "b", "e", "l", "e", "d", " ",
       "d", "a", "t", "a", " ", "(", "c", "l", "u", "s", "t", "e", "r", "i",
       "n", "g", ",", " ", "d", "i", "m", "e", "n", "s", "i", "o", "n", "a",
       "l", "i", "t", "y", " ", "r", "e", "d", "u", "c", "t", "i", "o", "n",
       ")", "\n", "-", " ", "*", "*", "R", "e", "i", "n", "f", "o", "r", "c",
       "e", "m", "e", "n", "t", " ", "L", "e", "a", "r", "n", "i", "n", "g",
       "*", "*", ":", " ", "L", "e", "a", "r", "n", "i", "n", "g", " ", "t",
       "h", "r", "o", "u", "g", "h", " ", "r", "e", "w", "a", "r", "d", "s",
       " ", "a", "n", "d", " ", "p", "e", "n", "a", "l", "t", "i", "e", "s",
       " ", "(", "g", "a", "m", "e", " ", "p", "l", "a", "y", "i", "n", "g",
       ",", " ", "r", "o", "b", "o", "t", "i", "c", "s", ")", "\n", "-", " ",
       "*", "*", "D", "e", "e", "p", " ", "L", "e", "a", "r", "n", "i", "n",
       "g", "*", "*", ":", " ", "N", "e", "u", "r", "a", "l", " ", "n", "e",
       "t", "w", "o", "r", "k", "s", " ", "w", "i", "t", "h", " ", "m", "u",
       "l", "t", "i", "p", "l", "e", " ", "l", "a", "y", "e", "r", "s", " ",
       "f", "o", "r", " ", "c", "o", "m", "p", "l", "e", "x", " ", "p", "a",
       "t", "t", "e", "r", "n", " ", "r", "e", "c", "o", "g", "n", "i", "t",
       "i", "o", "n", "\n", "\n", "*", "*", "R", "e", "a", "l", "-", "W", "o",
       "r", "l", "d", " ", "A", "p", "p", "l", "i", "c", "a", "t", "i", "o",
       "n", "s", ":", "*", "*", "\n", "-", " ", "H", "e", "a", "l", "t", "h",
       "c", "a", "r", "e", ":", " ", "M", "e", "d", "i", "c", "a", "l", " ",
       "d", "i", "a", "g", "n", "o", "s", "i", "s", ",", " ", "d", "r", "u",
       "g", " ", "d", "i", "s", "c", "o", "v", "e", "r", "y", ",", " ", "p",
       "e", "r", "s", "o", "n", "a", "l", "i", "z", "e", "d", " ", "t", "r",
       "e", "a", "t", "m", "e", "n", "t", "\n", "-", " ", "F", "i", "n", "a",
       "n", "c", "e", ":", " ", "F", "r", "a", "u", "d", " ", "d", "e", "t",
       "e", "c", "t", "i", "o", "n", ",", " ", "a", "l", "g", "o", "r", "i",
       "t", "h", "m", "i", "c", " ", "t", "r", "a", "d", "i", "n", "g", ",",
       " ", "c", "r", "e", "d", "i", "t", " ", "s", "c", "o", "r", "i", "n",
       "g", "\n", "-", " ", "T", "r", "a", "n", "s", "p", "o", "r", "t", "a",
       "t", "i", "o", "n", ":", " ", "A", "u", "t", "o", "n", "o", "m", "o",
       "u", "s", " ", "v", "e", "h", "i", "c", "l", "e", "s", ",", " ", "r",
       "o", "u", "t", "e", " ", "o", "p", "t", "i", "m", "i", "z", "a", "t",
       "i", "o", "n", ",", " ", "t", "r", "a", "f", "f", "i", "c", " ", "m",
       "a", "n", "a", "g", "e", "m", "e", "n", "t", "\n", "-", " ", "T", "e",
       "c", "h", "n", "o", "l", "o", "g", "y", ":", " ", "S", "e", "a", "r",
       "c", "h", " ", "e", "n", "g", "i", "n", "e", "s", ",", " ", "r", "e",
       "c", "o", "m", "m", "e", "n", "d", "a", "t", "i", "o", "n", " ", "s",
       "y", "s", "t", "e", "m", "s", ",", " ", "v", "o", "i", "c", "e", " ",
       "a", "s", "s", "i", "s", "t", "a", "n", "t", "s", "\n", "-", " ", "B",
       "u", "s", "i", "n", "e", "s", "s", ":", " ", "C", "u", "s", "t", "o",
       "m", "e", "r", " ", "s", "e", "g", "m", "e", "n", "t", "a", "t", "i",
       "o", "n", ",", " ", "d", "e", "m", "a", "n", "d", " ", "f", "o", "r",
       "e", "c", "a", "s", "t", "i", "n", "g", ",", " ", "s", "u", "p", "p",
       "l", "y", " ", "c", "h", "a", "i", "n", " ", "o", "p", "t", "i", "m",
       "i", "z", "a", "t", "i", "o", "n", "\n", "\n", "*", "*", "R", "e", "c",
       "e", "n", "t", " ", "D", "e", "v", "e", "l", "o", "p", "m", "e", "n",
       "t", "s", ":", "*", "*", "\n", "-", " ", "L", "a", "r", "g", "e", " ",
       "L", "a", "n", "g", "u", "a", "g", "e", " ", "M", "o", "d", "e", "l",
       "s", " ", "(", "G", "P", "T", ",", " ", "B", "E", "R", "T", ",", " ",
       "C", "l", "a", "u", "d", "e", ")", " ", "f", "o", "r", " ", "n", "a",
       "t", "u", "r", "a", "l", " ", "l", "a", "n", "g", "u", "a", "g", "e",
       " ", "u", "n", "d", "e", "r", "s", "t", "a", "n", "d", "i", "n", "g",
       "\n", "-", " ", "C", "o", "m", "p", "u", "t", "e", "r", " ", "V", "i",
       "s", "i", "o", "n", " ", "a", "d", "v", "a", "n", "c", "e", "s", " ",
       "i", "n", " ", "o", "b", "j", "e", "c", "t", " ", "d", "e", "t", "e",
       "c", "t", "i", "o", "n", " ", "a", "n", "d", " ", "i", "m", "a", "g",
       "e", " ", "g", "e", "n", "e", "r", "a", "t", "i", "o", "n", "\n", "-",
       " ", "G", "e", "n", "e", "r", "a", "t", "i", "v", "e", " ", "A", "I",
       " ", "f", "o", "r", " ", "c", "o", "n", "t", "e", "n", "t", " ", "c",
       "r", "e", "a", "t", "i", "o", "n", " ", "a", "n", "d", " ", "c", "o",
       "d", "e", " ", "g", "e", "n", "e", "r", "a", "t", "i", "o", "n">>]

\* The branch of lines 89-122: its terms, in the order any() tries them,
\* and its knowledge_addition.
RenewableEnergyTopic ==
  [terms |->
     <<<<"r", "e", "n", "e", "w", "a", "b", "l", "e", " ", "e", "n", "e", "r",
         "g", "y">>,
       <<"s", "o", "l", "a", "r">>,
       <<"w", "i", "n", "d">>,
       <<"c", "l", "e", "a", "n", " ", "e", "n", "e", "r", "g", "y">>,
       <<"s", "u", "s", "t", "a", "i", "n", "a", "b", "i", "l", "i", "t",
         "y">>>>,
   text |->
     <<"*", "*", "R", "e", "n", "e", "w", "a", "b", "l", "e", " ", "E", "n",
       "e", "r", "g", "y", " ", "&", " ", "S", "u", "s", "t", "a", "i", "n",
       "a", "b", "i", "l", "i", "t", "y", "*", "*", "\n", "\n", "R", "e", "n",
       "e", "w", "a", "b", "l", "e", " ", "e", "n", "e", "r", "g", "y", " ",
       "c", "o", "m", "e", "s", " ", "f", "r", "o", "m", " ", "n", "a", "t",
       "u", "r", "a", "l", " ", "s", "o", "u", "r", "c", "e", "s", " ", "t",
       "h", "a", "t", " ", "a", "r", "e", " ", "r", "e", "p", "l", "e", "n",
       "i", "s", "h", "e", "d", " ", "f", "a", "s", "t", "e", "r", " ", "t",
       "h", "a", "n", " ", "t", "h", "e", "y", " ", "a", "r", "e", " ", "c",
       "o", "n", "s", "u", "m", "e", "d", ",", " ", "o", "f", "f", "e", "r",
       "i", "n", "g", " ", "a", " ", "s", "u", "s", "t", "a", "i", "n", "a",
       "b", "l", "e", " ", "a", "l", "t", "e", "r", "n", "a", "t", "i", "v",
       "e", " ", "t", "o", " ", "f", "o", "s", "s", "i", "l", " ", "f", "u",
       "e", "l", "s", ".", "\n", "\n", "*", "*", "S", "o", "l", "a", "r", " ",
       "E", "n", "e", "r", "g", "y", ":", "*", "*", "\n", "-", " ", "*", "*",
       "P", "h", "o", "t", "o", "v", "o", "l", "t", "a", "i", "c", " ", "(",
       "P", "V", ")", "*", "*", ":", " ", "C", "o", "n", "v", "e", "r", "t",
       "s", " ", "s", "u", "n", "l", "i", "g", "h", "t", " ", "d", "i", "r",
       "e", "c", "t", "l", "y", " ", "i", "n", "t", "o", " ", "e", "l", "e",
       "c", "t", "r", "i", "c", "i", "t", "y", " ", "u", "s", "i", "n", "g",
       " ", "s", "e", "m", "i", "c", "o", "n", "d", "u", "c", "t", "o", "r",
       " ", "c", "e", "l", "l", "s", "\n", "-", " ", "*", "*", "S", "o", "l",
       "a", "r", " ", "T", "h", "e", "r", "m", "a", "l", "*", "*", ":", " ",
       "U", "s", "e", "s", " ", "s", "u", "n", "l", "i", "g", "h", "t", " ",
       "t", "o", " ", "h", "e", "a", "t", " ", "w", "a", "t", "e", "r", " ",
       "o", "r", " ", "a", "i", "r", " ", "f", "o", "r", " ", "b", "u", "i",
       "l", "d", "i", "n", "g", "s", "\n", "-", " ", "*", "*", "C", "o", "n",
       "c", "e", "n", "t", "r", "a", "t", "e", "d", " ", "S", "o", "l", "a",
       "r", " ", "P", "o", "w", "e", "r", "*", "*", ":", " ", "U", "s", "e",
       "s", " ", "m", "i", "r", "r", "o", "r", "s", " ", "t", "o", " ", "f",
       "o", "c", "u", "s", " ", "s", "u", "n", "l", "i", "g", "h", "t", " ",
       "f", "o", "r", " ", "e", "l", "e", "c", "t", "r", "i", "c", "i", "t",
       "y", " ", "g", "e", "n", "e", "r", "a", "t", "i", "o", "n", "\n", "-",
       " ", "*", "*", "E", "f", "f", "i", "c", "i", "e", "n", "c", "y", "*",
       "*", ":", " ", "M", "o", "d", "e", "r", "n", " ", "p", "a", "n", "e",
       "l", "s", " ", "a", "c", "h", "i", "e", "v", "e", " ", "2", "0", "-",
       "2", "2", "%", " ", "e", "f", "f", "i", "c", "i", "e", "n", "c", "y",
       ",", " ", "w", "i", "t", "h", " ", "c", "o", "s", "t", "s", " ", "d",
       "r", "o", "p", "p", "i", "n", "g", " ", "9", "0", "%", " ", "s", "i",
       "n", "c", "e", " ", "2", "0", "1", "0", "\n", "\n", "*", "*", "W", "i",
       "n", "d", " ", "E", "n", "e", "r", "g", "y", ":", "*", "*", "\n", "-",
       " ", "*", "*", "O", "n", "s", "h", "o", "r", "e", " ", "W", "i", "n",
       "d", "*", "*", ":", " ", "L", "a", "n", "d", "-", "b", "a", "s", "e",
       "d", " ", "t", "u", "r", "b", "i", "n", "e", "s", ",", " ", "n", "o",
       "w", " ", "c", "o", "s", "t", "-", "c", "o", "m", "p", "e", "t", "i",
       "t", "i", "v", "e", " ", "w", "i", "t", "h", " ", "f", "o", "s", "s",
       "i", "l", " ", "f", "u", "e", "l", "s", "\n", "-", " ", "*", "*", "O",
       "f", "f", "s", "h", "o", "r", "e", " ", "W", "i", "n", "d", "*", "*",
       ":", " ", "H", "i", "g", "h", "e", "r", " ", "a", "n", "d", " ", "m",
       "o", "r", "e", " ", "c", "o", "n", "s", "i", "s", "t", "e", "n", "t",
       " ", "w", "i", "n", "d", "s", ",", " ", "f", "a", "s", "t", "e", "r",
       " ", "g", "r", "o", "w", "i", "n", "g", " ", "s", "e", "g", "m", "e",
       "n", "t", "\n", "-", " ", "*", "*", "T", "e", "c", "h", "n", "o", "l",
       "o", "g", "y", "*", "*", ":", " ", "M", "o", "d", "e", "r", "n", " ",
       "t", "u", "r", "b", "i", "n", "e", "s", " ", "a", "r", "e", " ", "1",
       "5", "0", "+", " ", "m", "e", "t", "e", "r", "s", " ", "t", "a", "l",
       "l", " ", "w", "i", "t", "h", " ", "s", "m", "a", "r", "t", " ", "b",
       "l", "a", "d", "e", " ", "c", "o", "n", "t", "r", "o", "l", "\n", "-",
       " ", "*", "*", "C", "a", "p", "a", "c", "i", "t", "y", " ", "F", "a",
       "c", "t", "o", "r", "*", "*", ":", " ", "3", "5", "-", "4", "5", "%",
       " ", "f", "o", "r", " ", "m", "o", "d", "e", "r", "n", " ", "w", "i",
       "n", "d", " ", "f", "a", "r", "m", "s", "\n", "\n", "*", "*", "O", "t",
       "h", "e", "r", " ", "R", "e", "n", "e", "w", "a", "b", "l", "e", " ",
       "S", "o", "u", "r", "c", "e", "s", ":", "*", "*", "\n", "-", " ", "*",
       "*", "H", "y", "d", "r", "o", "e", "l", "e", "c", "t", "r", "i", "c",
       "*", "*", ":", " ", "1", "6", "%", " ", "o", "f", " ", "g", "l", "o",
       "b", "a", "l", " ", "e", "l", "e", "c", "t", "r", "i", "c", "i", "t",
       "y", ",", " ", "f", "r", "o", "m", " ", "l", "a", "r", "g", "e", " ",
       "d", "a", "m", "s", " ", "t", "o", " ", "m", "i", "c", "r", "o", "-",
       "h", "y", "d", "r", "o", "\n", "-", " ", "*", "*", "G", "e", "o", "t",
       "h", "e", "r", "m", "a", "l", "*", "*", ":", " ", "E", "a", "r", "t",
       "h", "'", "s", " ", "h", "e", "a", "t", " ", "f", "o", "r", " ", "e",
       "l", "e", "c", "t", "r", "i", "c", "i", "t", "y", " ", "a", "n", "d",
       " ", "h", "e", "a", "t", "i", "n", "g", ",", " ", "v", "e", "r", "y",
       " ", "r", "e", "l", "i", "a", "b", "l", "e", " ", "b", "a", "s", "e",
       "l", "o", "a", "d", " ", "p", "o", "w", "e", "r", "\n", "-", " ", "*",
       "*", "B", "i", "o", "m", "a", "s", "s", "*", "*", ":", " ", "O", "r",
       "g", "a", "n", "i", "c", " ", "m", "a", "t", "e", "r", "i", "a", "l",
       "s", " ", "f", "o", "r", " ", "e", "n", "e", "r", "g", "y", ",", " ",
       "i", "m", "p", "o", "r", "t", "a", "n", "t", " ", "f", "o", "r", " ",
       "r", "u", "r", "a", "l", " ", "c", "o", "m", "m", "u", "n", "i", "t",
       "i", "e", "s", "\n", "-", " ", "*", "*", "T", "i", "d", "a", "l", "/",
       "W", "a", "v", "e", "*", "*", ":", " ", "O", "c", "e", "a", "n", " ",
       "e", "n", "e", "r", "g", "y", ",", " ", "s", "t", "i", "l", "l", " ",
       "e", "m", "e", "r", "g", "i", "n", "g", " ", "b", "u", "t", " ", "p",
       "r", "o", "m", "i", "s", "i", "n", "g", " ", "f", "o", "r", " ", "c",
       "o", "a", "s", "t", "a", "l", " ", "r", "e", "g", "i", "o", "n", "s",
       "\n", "\n", "*", "*", "E", "n", "e", "r", "g", "y", " ", "S", "t", "o",
       "r", "a", "g", "e", " ", "S", "o", "l", "u", "t", "i", "o", "n", "s",
       ":", "*", "*", "\n", "-", " ", "*", "*", "B", "a", "t", "t", "e", "r",
       "y", " ", "S", "t", "o", "r", "a", "g", "e", "*", "*", ":", " ", "L",
       "i", "t", "h", "i", "u", "m", "-", "i", "o", "n", " ", "c", "o", "s",
       "t", "s", " ", "d", "o", "w", "n", " ", "9", "0", "%", " ", "s", "i",
       "n", "c", "e", " ", "2", "0", "1", "0", ",", " ", "e", "n", "a", "b",
       "l", "i", "n", "g", " ", "g", "r", "i", "d", " ", "i", "n", "t", "e",
       "g", "r", "a", "t", "i", "o", "n", "\n", "-", " ", "*", "*", "P", "u",
       "m", "p", "e", "d", " ", "H", "y", "d", "r", "o", "*", "*", ":", " ",
       "L", "a", "r", "g", "e", "s", "t", " ", "f", "o", "r", "m", " ", "o",
       "f", " ", "g", "r", "i", "d", " ", "s", "t", "o", "r", "a", "g", "e",
       ",", " ", "u", "s", "i", "n", "g", " ", "w", "a", "t", "e", "r", " ",
       "r", "e", "s", "e", "r", "v", "o", "i", "r", "s", "\n", "-", " ", "*",
       "*", "G", "r", "e", "e", "n", " ", "H", "y", "d", "r", "o", "g", "e",
       "n", "*", "*", ":", " ", "P", "r", "o", "d", "u", "c", "e", "d", " ",
       "f", "r", "o", "m", " ", "r", "e", "n", "e", "w", "a", "b", "l", "e",
       " ", "e", "l", "e", "c", "t", "r", "i", "c", "i", "t", "y", ",", " ",
       "f", "o", "r", " ", "l", "o", "n", "g", "-", "t", "e", "r", "m", " ",
       "s", "t", "o", "r", "a", "g", "e", "\n", "-", " ", "*", "*", "G", "r",
       "i", "d", " ", "M", "o", "d", "e", "r", "n", "i", "z", "a", "t", "i",
       "o", "n", "*", "*", ":", " ", "S", "m", "a", "r", "t", " ", "g", "r",
       "i", "d", "s", " ", "t", "o", " ", "m", "a", "n", "a", "g", "e", " ",
       "v", "a", "r", "i", "a", "b", "l", "e", " ", "r", "e", "n", "e", "w",
       "a", "b", "l", "e", " ", "s", "o", "u", "r", "c", "e", "s", "\n", "\n",
       "*", "*", "E", "c", "o", "n", "o", "m", "i", "c", " ", "&", " ", "E",
       "n", "v", "i", "r", "o", "n", "m", "e", "n", "t", "a", "l", " ", "B",
       "e", "n", "e", "f", "i", "t", "s", ":", "*", "*", "\n", "-", " ", "J",
       "o", "b", " ", "c", "r", "e", "a", "t", "i", "o", "n", ":", " ", "1",
       "3", "+", " ", "m", "i", "l", "l", "i", "o", "n", " ", "j", "o", "b",
       "s", " ", "g", "l", "o", "b", "a", "l", "l", "y", " ", "i", "n", " ",
       "r", "e", "n", "e", "w", "a", "b", "l", "e", " ", "e", "n", "e", "r",
       "g", "y", " ", "s", "e", "c", "t", "o", "r", "\n", "-", " ", "E", "n",
       "e", "r", "g", "y", " ", "i", "n", "d", "e", "p", "e", "n", "d", "e",
       "n", "c", "e", " ", "a", "n", "d", " ", "p", "r", "i", "c", "e", " ",
       "s", "t", "a", "b", "i", "l", "i", "t", "y", "\n", "-", " ", "R", "e",
       "d", "u", "c", "e", "d", " ", "a", "i", "r", " ", "p", "o", "l", "l",
       "u", "t", "i", "o", "n", " ", "a", "n", "d", " ", "h", "e", "a", "l",
       "t", "h", " ", "b", "e", "n", "e", "f", "i", "t", "s", "\n", "-", " ",
       "C", "l", "i", "m", "a", "t", "e", " ", "c", "h", "a", "n", "g", "e",
       " ", "m", "i", "t", "i", "g", "a", "t", "i", "o", "n", " ", "p", "o",
       "t", "e", "n", "t", "i", "a", "l">>]

\* The branch of lines 124-155: its terms, in the order any() tries them,
\* and its knowledge_addition.
ClimateChangeTopic ==
  [terms |->
     <<<<"c", "l", "i", "m", "a", "t", "e", " ", "c", "h", "a", "n", "g",
         "e">>,
       <<"g", "l", "o", "b", "a", "l", " ", "w", "a", "r", "m", "i", "n",
         "g">>,
       <<"c", "a", "r", "b", "o", "n">>>>,
   text |->
     <<"*", "*", "C", "l", "i", "m", "a", "t", "e", " ", "C", "h", "a", "n",
       "g", "e", " ", "&", " ", "E", "n", "v", "i", "r", "o", "n", "m", "e",
       "n", "t", "a", "l", " ", "S", "c", "i", "e", "n", "c", "e", "*", "*",
       "\n", "\n", "C", "l", "i", "m", "a", "t", "e", " ", "c", "h", "a", "n",
       "g", "e", " ", "r", "e", "f", "e", "r", "s", " ", "t", "o", " ", "l",
       "o", "n", "g", "-", "t", "e", "r", "m", " ", "s", "h", "i", "f", "t",
       "s", " ", "i", "n", " ", "g", "l", "o", "b", "a", "l", " ", "o", "r",
       " ", "r", "e", "g", "i", "o", "n", "a", "l", " ", "c", "l", "i", "m",
       "a", "t", "e", " ", "p", "a", "t", "t", "e", "r", "n", "s", ",", " ",
       "p", "r", "i", "m", "a", "r", "i", "l", "y", " ", "a", "t", "t", "r",
       "i", "b", "u", "t", "e", "d", " ", "t", "o", " ", "i", "n", "c", "r",
       "e", "a", "s", "e", "d", " ", "l", "e", "v", "e", "l", "s", " ", "o",
       "f", " ", "g", "r", "e", "e", "n", "h", "o", "u", "s", "e", " ", "g",
       "a", "s", "e", "s", " ", "i", "n", " ", "t", "h", "e", " ", "a", "t",
       "m", "o", "s", "p", "h", "e", "r", "e", ".", "\n", "\n", "*", "*", "C",
       "a", "u", "s", "e", "s", " ", "&", " ", "M", "e", "c", "h", "a", "n",
       "i", "s", "m", "s", ":", "*", "*", "\n", "-", " ", "*", "*", "G", "r",
       "e", "e", "n", "h", "o", "u", "s", "e", " ", "E", "f", "f", "e", "c",
       "t", "*", "*", ":", " ", "N", "a", "t", "u", "r", "a", "l", " ", "w",
       "a", "r", "m", "i", "n", "g", " ", "p", "r", "o", "c", "e", "s", "s",
       " ", "i", "n", "t", "e", "n", "s", "i", "f", "i", "e", "d", " ", "b",
       "y", " ", "h", "u", "m", "a", "n", " ", "a", "c", "t", "i", "v", "i",
       "t", "i", "e", "s", "\n", "-", " ", "*", "*", "C", "a", "r", "b", "o",
       "n", " ", "D", "i", "o", "x", "i", "d", "e", " ", "(", "C", "O", "2",
       ")", "*", "*", ":", " ", "P", "r", "i", "m", "a", "r", "y", " ", "g",
       "r", "e", "e", "n", "h", "o", "u", "s", "e", " ", "g", "a", "s", " ",
       "f", "r", "o", "m", " ", "f", "o", "s", "s", "i", "l", " ", "f", "u",
       "e", "l", " ", "c", "o", "m", "b", "u", "s", "t", "i", "o", "n", " ",
       "(", "7", "5", "%", " ", "o", "f", " ", "e", "m", "i", "s", "s", "i",
       "o", "n", "s", ")", "\n", "-", " ", "*", "*", "M", "e", "t", "h", "a",
       "n", "e", " ", "(", "C", "H", "4", ")", "*", "*", ":", " ", "F", "r",
       "o", "m", " ", "a", "g", "r", "i", "c", "u", "l", "t", "u", "r", "e",
       ",", " ", "l", "i", "v", "e", "s", "t", "o", "c", "k", ",", " ", "l",
       "a", "n", "d", "f", "i", "l", "l", "s", " ", "(", "1", "6", "%", " ",
       "o", "f", " ", "e", "m", "i", "s", "s", "i", "o", "n", "s", ")", "\n",
       "-", " ", "*", "*", "N", "i", "t", "r", "o", "u", "s", " ", "O", "x",
       "i", "d", "e", " ", "(", "N", "2", "O", ")", "*", "*", ":", " ", "F",
       "r", "o", "m", " ", "a", "g", "r", "i", "c", "u", "l", "t", "u", "r",
       "e", " ", "a", "n", "d", " ", "i", "n", "d", "u", "s", "t", "r", "i",
       "a", "l", " ", "a", "c", "t", "i", "v", "i", "t", "i", "e", "s", "\n",
       "-", " ", "*", "*", "F", "l", "u", "o", "r", "i", "n", "a", "t", "e",
       "d", " ", "G", "a", "s", "e", "s", "*", "*", ":", " ", "F", "r", "o",
       "m", " ", "r", "e", "f", "r", "i", "g", "e", "r", "a", "t", "i", "o",
       "n", " ", "a", "n", "d", " ", "i", "n", "d", "u", "s", "t", "r", "i",
       "a", "l", " ", "p", "r", "o", "c", "e", "s", "s", "e", "s", "\n", "\n",
       "*", "*", "O", "b", "s", "e", "r", "v", "a", "b", "l", "e", " ", "I",
       "m", "p", "a", "c", "t", "s", ":", "*", "*", "\n", "-", " ", "G", "l",
       "o", "b", "a", "l", " ", "t", "e", "m", "p", "e", "r", "a", "t", "u",
       "r", "e", " ", "r", "i", "s", "e", ":", " ", "1", ".", "1", "U+00B0",
       "C", " ", "a", "b", "o", "v", "e", " ", "p", "r", "e", "-", "i", "n",
       "d", "u", "s", "t", "r", "i", "a", "l", " ", "l", "e", "v", "e", "l",
       "s", "\n", "-", " ", "S", "e", "a", " ", "l", "e", "v", "e", "l", " ",
       "r", "i", "s", "e", ":", " ", "2", "0", "c", "m", " ", "s", "i", "n",
       "c", "e", " ", "1", "9", "0", "0", ",", " ", "a", "c", "c", "e", "l",
       "e", "r", "a", "t", "i", "n", "g", "\n", "-", " ", "I", "c", "e", " ",
       "s", "h", "e", "e", "t", " ", "a", "n", "d", " ", "g", "l", "a", "c",
       "i", "e", "r", " ", "m", "e", "l", "t", "i", "n", "g", " ", "i", "n",
       " ", "A", "r", "c", "t", "i", "c", ",", " ", "A", "n", "t", "a", "r",
       "c", "t", "i", "c", ",", " ", "a", "n", "d", " ", "m", "o", "u", "n",
       "t", "a", "i", "n", " ", "r", "e", "g", "i", "o", "n", "s", "\n", "-",
       " ", "O", "c", "e", "a", "n", " ", "a", "c", "i", "d", "i", "f", "i",
       "c", "a", "t", "i", "o", "n", " ", "f", "r", "o", "m", " ", "C", "O",
       "2", " ", "a", "b", "s", "o", "r", "p", "t", "i", "o", "n", "\n", "-",
       " ", "E", "x", "t", "r", "e", "m", "e", " ", "w", "e", "a", "t", "h",
       "e", "r", " ", "e", "v", "e", "n", "t", "s", ":", " ", "h", "e", "a",
       "t", "w", "a", "v", "e", "s", ",", " ", "d", "r", "o", "u", "g", "h",
       "t", "s", ",", " ", "f", "l", "o", "o", "d", "s", ",", " ", "h", "u",
       "r", "r", "i", "c", "a", "n", "e", "s", "\n", "\n", "*", "*", "M", "i",
       "t", "i", "g", "a", "t", "i", "o", "n", " ", "S", "t", "r", "a", "t",
       "e", "g", "i", "e", "s", ":", "*", "*", "\n", "-", " ", "R", "e", "n",
       "e", "w", "a", "b", "l", "e", " ", "e", "n", "e", "r", "g", "y", " ",
       "t", "r", "a", "n", "s", "i", "t", "i", "o", "n", " ", "(", "s", "o",
       "l", "a", "r", ",", " ", "w", "i", "n", "d", ",", " ", "h", "y", "d",
       "r", "o", "e", "l", "e", "c", "t", "r", "i", "c", ")", "\n", "-", " ",
       "E", "n", "e", "r", "g", "y", " ", "e", "f", "f", "i", "c", "i", "e",
       "n", "c", "y", " ", "i", "m", "p", "r", "o", "v", "e", "m", "e", "n",
       "t", "s", " ", "i", "n", " ", "b", "u", "i", "l", "d", "i", "n", "g",
       "s", " ", "a", "n", "d", " ", "t", "r", "a", "n", "s", "p", "o", "r",
       "t", "a", "t", "i", "o", "n", "\n", "-", " ", "C", "a", "r", "b", "o",
       "n", " ", "p", "r", "i", "c", "i", "n", "g", " ", "a", "n", "d", " ",
       "e", "m", "i", "s", "s", "i", "o", "n", "s", " ", "t", "r", "a", "d",
       "i", "n", "g", " ", "s", "y", "s", "t", "e", "m", "s", "\n", "-", " ",
       "R", "e", "f", "o", "r", "e", "s", "t", "a", "t", "i", "o", "n", " ",
       "a", "n", "d", " ", "a", "f", "f", "o", "r", "e", "s", "t", "a", "t",
       "i", "o", "n", " ", "f", "o", "r", " ", "c", "a", "r", "b", "o", "n",
       " ", "s", "e", "q", "u", "e", "s", "t", "r", "a", "t", "i", "o", "n",
       "\n", "-", " ", "E", "l", "e", "c", "t", "r", "i", "c", " ", "v", "e",
       "h", "i", "c", "l", "e", "s", " ", "a", "n", "d", " ", "s", "u", "s",
       "t", "a", "i", "n", "a", "b", "l", "e", " ", "t", "r", "a", "n", "s",
       "p", "o", "r", "t", "a", "t", "i", "o", "n", "\n", "-", " ", "I", "n",
       "d", "u", "s", "t", "r", "i", "a", "l", " ", "d", "e", "c", "a", "r",
       "b", "o", "n", "i", "z", "a", "t", "i", "o", "n", " ", "a", "n", "d",
       " ", "c", "l", "e", "a", "n", " ", "t", "e", "c", "h", "n", "o", "l",
       "o", "g", "y", " ", "a", "d", "o", "p", "t", "i", "o", "n", "\n", "\n",
       "*", "*", "A", "d", "a", "p", "t", "a", "t", "i", "o", "n", " ", "M",
       "e", "a", "s", "u", "r", "e", "s", ":", "*", "*", "\n", "-", " ", "C",
       "l", "i", "m", "a", "t", "e", "-", "r", "e", "s", "i", "l", "i", "e",
       "n", "t", " ", "i", "n", "f", "r", "a", "s", "t", "r", "u", "c", "t",
       "u", "r", "e", " ", "a", "n", "d", " ", "u", "r", "b", "a", "n", " ",
       "p", "l", "a", "n", "n", "i", "n", "g", "\n", "-", " ", "A", "g", "r",
       "i", "c", "u", "l", "t", "u", "r", "a", "l", " ", "a", "d", "a", "p",
       "t", "a", "t", "i", "o", "n", " ", "a", "n", "d", " ", "d", "r", "o",
       "u", "g", "h", "t", "-", "r", "e", "s", "i", "s", "t", "a", "n", "t",
       " ", "c", "r", "o", "p", "s", "\n", "-", " ", "C", "o", "a", "s", "t",
       "a", "l", " ", "p", "r", "o", "t", "e", "c", "t", "i", "o", "n", " ",
       "a", "n", "d", " ", "f", "l", "o", "o", "d", " ", "m", "a", "n", "a",
       "g", "e", "m", "e", "n", "t", " ", "s", "y", "s", "t", "e", "m", "s",
       "\n", "-", " ", "E", "a", "r", "l", "y", " ", "w", "a", "r", "n", "i",
       "n", "g", " ", "s", "y", "s", "t", "e", "m", "s", " ", "f", "o", "r",
       " ", "e", "x", "t", "r", "e", "m", "e", " ", "w", "e", "a", "t", "h",
       "e", "r", " ", "e", "v", "e", "n", "t", "s">>]

\* The branch of lines 157-181: its terms, in the order any() tries them,
\* and its knowledge_addition.
ProgrammingTopic ==
  [terms |->
     <<<<"p", "r", "o", "g", "r", "a", "m", "m", "i", "n", "g">>,
       <<"c", "o", "d", "i", "n", "g">>,
       <<"s", "o", "f", "t", "w", "a", "r", "e">>,
       <<"d", "e", "v", "e", "l", "o", "p", "m", "e", "n", "t">>,
       <<"p", "y", "t", "h", "o", "n">>,
       <<"j", "a", "v", "a", "s", "c", "r", "i", "p", "t">>>>,
   text |->
     <<"*", "*", "S", "o", "f", "t", "w", "a", "r", "e", " ", "D", "e", "v",
       "e", "l", "o", "p", "m", "e", "n", "t", "*", "*", "\n", "\n", "S", "o",
       "f", "t", "w", "a", "r", "e", " ", "d", "e", "v", "e", "l", "o", "p",
       "m", "e", "n", "t", " ", "i", "s", " ", "t", "h", "e", " ", "p", "r",
       "o", "c", "e", "s", "s", " ", "o", "f", " ", "c", "r", "e", "a", "t",
       "i", "n", "g", ",", " ", "d", "e", "s", "i", "g", "n", "i", "n", "g",
       ",", " ", "d", "e", "p", "l", "o", "y", "i", "n", "g", ",", " ", "a",
       "n", "d", " ", "m", "a", "i", "n", "t", "a", "i", "n", "i", "n", "g",
       " ", "s", "o", "f", "t", "w", "a", "r", "e", " ", "a", "p", "p", "l",
       "i", "c", "a", "t", "i", "o", "n", "s", " ", "a", "n", "d", " ", "s",
       "y", "s", "t", "e", "m", "s", ".", "\n", "\n", "*", "*", "P", "r", "o",
       "g", "r", "a", "m", "m", "i", "n", "g", " ", "L", "a", "n", "g", "u",
       "a", "g", "e", "s", " ", "&", " ", "U", "s", "e", " ", "C", "a", "s",
       "e", "s", ":", "*", "*", "\n", "-", " ", "*", "*", "P", "y", "t", "h",
       "o", "n", "*", "*", ":", " ", "D", "a", "t", "a", " ", "s", "c", "i",
       "e", "n", "c", "e", ",", " ", "A", "I", "/", "M", "L", ",", " ", "w",
       "e", "b", " ", "d", "e", "v", "e", "l", "o", "p", "m", "e", "n", "t",
       ",", " ", "a", "u", "t", "o", "m", "a", "t", "i", "o", "n", ",", " ",
       "s", "c", "i", "e", "n", "t", "i", "f", "i", "c", " ", "c", "o", "m",
       "p", "u", "t", "i", "n", "g", "\n", "-", " ", "*", "*", "J", "a", "v",
       "a", "S", "c", "r", "i", "p", "t", "*", "*", ":", " ", "W", "e", "b",
       " ", "d", "e", "v", "e", "l", "o", "p", "m", "e", "n", "t", ",", " ",
       "m", "o", "b", "i", "l", "e", " ", "a", "p", "p", "s", " ", "(", "R",
       "e", "a", "c", "t", " ", "N", "a", "t", "i", "v", "e", ")", ",", " ",
       "s", "e", "r", "v", "e", "r", "-", "s", "i", "d", "e", " ", "(", "N",
       "o", "d", "e", ".", "j", "s", ")", "\n", "-", " ", "*", "*", "J", "a",
       "v", "a", "*", "*", ":", " ", "E", "n", "t", "e", "r", "p", "r", "i",
       "s", "e", " ", "a", "p", "p", "l", "i", "c", "a", "t", "i", "o", "n",
       "s", ",", " ", "A", "n", "d", "r", "o", "i", "d", " ", "d", "e", "v",
       "e", "l", "o", "p", "m", "e", "n", "t", ",", " ", "l", "a", "r", "g",
       "e", "-", "s", "c", "a", "l", "e", " ", "s", "y", "s", "t", "e", "m",
       "s", "\n", "-", " ", "*", "*", "C", "+", "+", "*", "*", ":", " ", "S",
       "y", "s", "t", "e", "m", " ", "p", "r", "o", "g", "r", "a", "m", "m",
       "i", "n", "g", ",", " ", "g", "a", "m", "e", " ", "d", "e", "v", "e",
       "l", "o", "p", "m", "e", "n", "t", ",", " ", "h", "i", "g", "h", "-",
       "p", "e", "r", "f", "o", "r", "m", "a", "n", "c", "e", " ", "c", "o",
       "m", "p", "u", "t", "i", "n", "g", "\n", "-", " ", "*", "*", "G", "o",
       "*", "*", ":", " ", "C", "l", "o", "u", "d", " ", "i", "n", "f", "r",
       "a", "s", "t", "r", "u", "c", "t", "u", "r", "e", ",", " ", "m", "i",
       "c", "r", "o", "s", "e", "r", "v", "i", "c", "e", "s", ",", " ", "c",
       "o", "n", "c", "u", "r", "r", "e", "n", "t", " ", "p", "r", "o", "g",
       "r", "a", "m", "m", "i", "n", "g", "\n", "-", " ", "*", "*", "R", "u",
       "s", "t", "*", "*", ":", " ", "S", "y", "s", "t", "e", "m", " ", "p",
       "r", "o", "g", "r", "a", "m", "m", "i", "n", "g", ",", " ", "w", "e",
       "b", " ", "a", "s", "s", "e", "m", "b", "l", "y", ",", " ", "b", "l",
       "o", "c", "k", "c", "h", "a", "i", "n", " ", "d", "e", "v", "e", "l",
       "o", "p", "m", "e", "n", "t", "\n", "\n", "*", "*", "D", "e", "v", "e",
       "l", "o", "p", "m", "e", "n", "t", " ", "M", "e", "t", "h", "o", "d",
       "o", "l", "o", "g", "i", "e", "s", ":", "*", "*", "\n", "-", " ", "*",
       "*", "A", "g", "i", "l", "e", "*", "*", ":", " ", "I", "t", "e", "r",
       "a", "t", "i", "v", "e", " ", "d", "e", "v", "e", "l", "o", "p", "m",
       "e", "n", "t", " ", "w", "i", "t", "h", " ", "r", "e", "g", "u", "l",
       "a", "r", " ", "f", "e", "e", "d", "b", "a", "c", "k", " ", "a", "n",
       "d", " ", "a", "d", "a", "p", "t", "a", "t", "i", "o", "n", "\n", "-",
       " ", "*", "*", "D", "e", "v", "O", "p", "s", "*", "*", ":", " ", "I",
       "n", "t", "e", "g", "r", "a", "t", "i", "o", "n", " ", "o", "f", " ",
       "d", "e", "v", "e", "l", "o", "p", "m", "e", "n", "t", " ", "a", "n",
       "d", " ", "o", "p", "e", "r", "a", "t", "i", "o", "n", "s", " ", "f",
       "o", "r", " ", "c", "o", "n", "t", "i", "n", "u", "o", "u", "s", " ",
       "d", "e", "l", "i", "v", "e", "r", "y", "\n", "-", " ", "*", "*", "T",
       "e", "s", "t", "-", "D", "r", "i", "v", "e", "n", " ", "D", "e", "v",
       "e", "l", "o", "p", "m", "e", "n", "t", "*", "*", ":", " ", "W", "r",
       "i", "t", "i", "n", "g", " ", "t", "e", "s", "t", "s", " ", "b", "e",
       "f", "o", "r", "e", " ", "i", "m", "p", "l", "e", "m", "e", "n", "t",
       "i", "n", "g", " ", "f", "u", "n", "c", "t", "i", "o", "n", "a", "l",
       "i", "t", "y", "\n", "-", " ", "*", "*", "M", "i", "c", "r", "o", "s",
       "e", "r", "v", "i", "c", "e", "s", "*", "*", ":", " ", "B", "r", "e",
       "a", "k", "i", "n", "g", " ", "a", "p", "p", "l", "i", "c", "a", "t",
       "i", "o", "n", "s", " ", "i", "n", "t", "o", " ", "s", "m", "a", "l",
       "l", ",", " ", "i", "n", "d", "e", "p", "e", "n", "d", "e", "n", "t",
       " ", "s", "e", "r", "v", "i", "c", "e", "s", "\n", "\n", "*", "*", "B",
       "e", "s", "t", " ", "P", "r", "a", "c", "t", "i", "c", "e", "s", ":",
       "*", "*", "\n", "-", " ", "C", "l", "e", "a", "n", " ", "c", "o", "d",
       "e", " ", "p", "r", "i", "n", "c", "i", "p", "l", "e", "s", ":", " ",
       "r", "e", "a", "d", "a", "b", "l", "e", ",", " ", "m", "a", "i", "n",
       "t", "a", "i", "n", "a", "b", "l", "e", ",", " ", "a", "n", "d", " ",
       "w", "e", "l", "l", "-", "d", "o", "c", "u", "m", "e", "n", "t", "e",
       "d", "\n", "-", " ", "V", "e", "r", "s", "i", "o", "n", " ", "c", "o",
       "n", "t", "r", "o", "l", " ", "w", "i", "t", "h", " ", "G", "i", "t",
       " ", "f", "o", "r", " ", "c", "o", "l", "l", "a", "b", "o", "r", "a",
       "t", "i", "o", "n", " ", "a", "n", "d", " ", "c", "h", "a", "n", "g",
       "e", " ", "t", "r", "a", "c", "k", "i", "n", "g", "\n", "-", " ", "C",
       "o", "n", "t", "i", "n", "u", "o", "u", "s", " ", "i", "n", "t", "e",
       "g", "r", "a", "t", "i", "o", "n", "/", "d", "e", "p", "l", "o", "y",
       "m", "e", "n", "t", " ", "(", "C", "I", "/", "C", "D", ")", " ", "f",
       "o", "r", " ", "a", "u", "t", "o", "m", "a", "t", "e", "d", " ", "t",
       "e", "s", "t", "i", "n", "g", " ", "a", "n", "d", " ", "d", "e", "p",
       "l", "o", "y", "m", "e", "n", "t", "\n", "-", " ", "C", "o", "d", "e",
       " ", "r", "e", "v", "i", "e", "w", "s", " ", "f", "o", "r", " ", "q",
       "u", "a", "l", "i", "t", "y", " ", "a", "s", "s", "u", "r", "a", "n",
       "c", "e", " ", "a", "n", "d", " ", "k", "n", "o", "w", "l", "e", "d",
       "g", "e", " ", "s", "h", "a", "r", "i", "n", "g", "\n", "-", " ", "D",
       "e", "s", "i", "g", "n", " ", "p", "a", "t", "t", "e", "r", "n", "s",
       " ", "f", "o", "r", " ", "r", "e", "u", "s", "a", "b", "l", "e", " ",
       "a", "n", "d", " ", "s", "c", "a", "l", "a", "b", "l", "e", " ", "s",
       "o", "l", "u", "t", "i", "o", "n", "s">>]

\* The branch of lines 183-210: its terms, in the order any() tries them,
\* and its knowledge_addition.
DataScienceTopic ==
  [terms |->
     <<<<"d", "a", "t", "a", " ", "s", "c", "i", "e", "n", "c", "e">>,
       <<"a", "n", "a", "l", "y", "t", "i", "c", "s">>,
       <<"s", "t", "a", "t", "i", "s", "t", "i", "c", "s">>,
       <<"d", "a", "t", "a", " ", "a", "n", "a", "l", "y", "s", "i", "s">>,
       <<"b", "i", "g", " ", "d", "a", "t", "a">>>>,
   text |->
     <<"*", "*", "D", "a", "t", "a", " ", "S", "c", "i", "e", "n", "c", "e",
       " ", "&", " ", "A", "n", "a", "l", "y", "t", "i", "c", "s", "*", "*",
       "\n", "\n", "D", "a", "t", "a", " ", "s", "c", "i", "e", "n", "c", "e",
       " ", "i", "s", " ", "a", "n", " ", "i", "n", "t", "e", "r", "d", "i",
       "s", "c", "i", "p", "l", "i", "n", "a", "r", "y", " ", "f", "i", "e",
       "l", "d", " ", "t", "h", "a", "t", " ", "u", "s", "e", "s", " ", "s",
       "c", "i", "e", "n", "t", "i", "f", "i", "c", " ", "m", "e", "t", "h",
       "o", "d", "s", ",", " ", "p", "r", "o", "c", "e", "s", "s", "e", "s",
       ",", " ", "a", "l", "g", "o", "r", "i", "t", "h", "m", "s", ",", " ",
       "a", "n", "d", " ", "s", "y", "s", "t", "e", "m", "s", " ", "t", "o",
       " ", "e", "x", "t", "r", "a", "c", "t", " ", "k", "n", "o", "w", "l",
       "e", "d", "g", "e", " ", "a", "n", "d", " ", "i", "n", "s", "i", "g",
       "h", "t", "s", " ", "f", "r", "o", "m", " ", "s", "t", "r", "u", "c",
       "t", "u", "r", "e", "d", " ", "a", "n", "d", " ", "u", "n", "s", "t",
       "r", "u", "c", "t", "u", "r", "e", "d", " ", "d", "a", "t", "a", ".",
       "\n", "\n", "*", "*", "D", "a", "t", "a", " ", "S", "c", "i", "e", "n",
       "c", "e", " ", "P", "r", "o", "c", "e", "s", "s", ":", "*", "*", "\n",
       "1", ".", " ", "*", "*", "D", "a", "t", "a", " ", "C", "o", "l", "l",
       "e", "c", "t", "i", "o", "n", "*", "*", ":", " ", "G", "a", "t", "h",
       "e", "r", "i", "n", "g", " ", "d", "a", "t", "a", " ", "f", "r", "o",
       "m", " ", "v", "a", "r", "i", "o", "u", "s", " ", "s", "o", "u", "r",
       "c", "e", "s", " ", "(", "d", "a", "t", "a", "b", "a", "s", "e", "s",
       ",", " ", "A", "P", "I", "s", ",", " ", "w", "e", "b", " ", "s", "c",
       "r", "a", "p", "i", "n", "g", ")", "\n", "2", ".", " ", "*", "*", "D",
       "a", "t", "a", " ", "C", "l", "e", "a", "n", "i", "n", "g", "*", "*",
       ":", " ", "H", "a", "n", "d", "l", "i", "n", "g", " ", "m", "i", "s",
       "s", "i", "n", "g", " ", "v", "a", "l", "u", "e", "s", ",", " ", "o",
       "u", "t", "l", "i", "e", "r", "s", ",", " ", "a", "n", "d", " ", "i",
       "n", "c", "o", "n", "s", "i", "s", "t", "e", "n", "c", "i", "e", "s",
       " ", "(", "o", "f", "t", "e", "n", " ", "7", "0", "-", "8", "0", "%",
       " ", "o", "f", " ", "w", "o", "r", "k", ")", "\n", "3", ".", " ", "*",
       "*", "E", "x", "p", "l", "o", "r", "a", "t", "o", "r", "y", " ", "D",
       "a", "t", "a", " ", "A", "n", "a", "l", "y", "s", "i", "s", "*", "*",
       ":", " ", "U", "n", "d", "e", "r", "s", "t", "a", "n", "d", "i", "n",
       "g", " ", "d", "a", "t", "a", " ", "p", "a", "t", "t", "e", "r", "n",
       "s", ",", " ", "d", "i", "s", "t", "r", "i", "b", "u", "t", "i", "o",
       "n", "s", ",", " ", "a", "n", "d", " ", "r", "e", "l", "a", "t", "i",
       "o", "n", "s", "h", "i", "p", "s", "\n", "4", ".", " ", "*", "*", "F",
       "e", "a", "t", "u", "r", "e", " ", "E", "n", "g", "i", "n", "e", "e",
       "r", "i", "n", "g", "*", "*", ":", " ", "C", "r", "e", "a", "t", "i",
       "n", "g", " ", "m", "e", "a", "n", "i", "n", "g", "f", "u", "l", " ",
       "v", "a", "r", "i", "a", "b", "l", "e", "s", " ", "f", "o", "r", " ",
       "m", "o", "d", "e", "l", "i", "n", "g", "\n", "5", ".", " ", "*", "*",
       "M", "o", "d", "e", "l", "i", "n", "g", "*", "*", ":", " ", "A", "p",
       "p", "l", "y", "i", "n", "g", " ", "s", "t", "a", "t", "i", "s", "t",
       "i", "c", "a", "l", " ", "a", "n", "d", " ", "m", "a", "c", "h", "i",
       "n", "e", " ", "l", "e", "a", "r", "n", "i", "n", "g", " ", "t", "e",
       "c", "h", "n", "i", "q", "u", "e", "s", "\n", "6", ".", " ", "*", "*",
       "V", "a", "l", "i", "d", "a", "t", "i", "o", "n", "*", "*", ":", " ",
       "T", "e", "s", "t", "i", "n", "g", " ", "m", "o", "d", "e", "l", " ",
       "p", "e", "r", "f", "o", "r", "m", "a", "n", "c", "e", " ", "a", "n",
       "d", " ", "g", "e", "n", "e", "r", "a", "l", "i", "z", "a", "t", "i",
       "o", "n", "\n", "7", ".", " ", "*", "*", "D", "e", "p", "l", "o", "y",
       "m", "e", "n", "t", "*", "*", ":", " ", "I", "m", "p", "l", "e", "m",
       "e", "n", "t", "i", "n", "g", " ", "m", "o", "d", "e", "l", "s", " ",
       "i", "n", " ", "p", "r", "o", "d", "u", "c", "t", "i", "o", "n", " ",
       "e", "n", "v", "i", "r", "o", "n", "m", "e", "n", "t", "s", "\n", "8",
       ".", " ", "*", "*", "M", "o", "n", "i", "t", "o", "r", "i", "n", "g",
       "*", "*", ":", " ", "T", "r", "a", "c", "k", "i", "n", "g", " ", "m",
       "o", "d", "e", "l", " ", "p", "e", "r", "f", "o", "r", "m", "a", "n",
       "c", "e", " ", "a", "n", "d", " ", "d", "a", "t", "a", " ", "d", "r",
       "i", "f", "t", "\n", "\n", "*", "*", "K", "e", "y", " ", "T", "o", "o",
       "l", "s", " ", "&", " ", "T", "e", "c", "h", "n", "o", "l", "o", "g",
       "i", "e", "s", ":", "*", "*", "\n", "-", " ", "*", "*", "P", "r", "o",
       "g", "r", "a", "m", "m", "i", "n", "g", "*", "*", ":", " ", "P", "y",
       "t", "h", "o", "n", " ", "(", "p", "a", "n", "d", "a", "s", ",", " ",
       "n", "u", "m", "p", "y", ",", " ", "s", "c", "i", "k", "i", "t", "-",
       "l", "e", "a", "r", "n", ")", ",", " ", "R", ",", " ", "S", "Q", "L",
       "\n", "-", " ", "*", "*", "V", "i", "s", "u", "a", "l", "i", "z", "a",
       "t", "i", "o", "n", "*", "*", ":", " ", "M", "a", "t", "p", "l", "o",
       "t", "l", "i", "b", ",", " ", "S", "e", "a", "b", "o", "r", "n", ",",
       " ", "P", "l", "o", "t", "l", "y", ",", " ", "T", "a", "b", "l", "e",
       "a", "u", ",", " ", "P", "o", "w", "e", "r", " ", "B", "I", "\n", "-",
       " ", "*", "*", "B", "i", "g", " ", "D", "a", "t", "a", "*", "*", ":",
       " ", "A", "p", "a", "c", "h", "e", " ", "S", "p", "a", "r", "k", ",",
       " ", "H", "a", "d", "o", "o", "p", ",", " ", "A", "p", "a", "c", "h",
       "e", " ", "K", "a", "f", "k", "a", "\n", "-", " ", "*", "*", "C", "l",
       "o", "u", "d", " ", "P", "l", "a", "t", "f", "o", "r", "m", "s", "*",
       "*", ":", " ", "A", "W", "S", ",", " ", "G", "o", "o", "g", "l", "e",
       " ", "C", "l", "o", "u", "d", ",", " ", "A", "z", "u", "r", "e", " ",
       "f", "o", "r", " ", "s", "c", "a", "l", "a", "b", "l", "e", " ", "c",
       "o", "m", "p", "u", "t", "i", "n", "g", "\n", "-", " ", "*", "*", "D",
       "a", "t", "a", "b", "a", "s", "e", "s", "*", "*", ":", " ", "P", "o",
       "s", "t", "g", "r", "e", "S", "Q", "L", ",", " ", "M", "o", "n", "g",
       "o", "D", "B", ",", " ", "R", "e", "d", "i", "s", " ", "f", "o", "r",
       " ", "d", "a", "t", "a", " ", "s", "t", "o", "r", "a", "g", "e", "\n",
       "\n", "*", "*", "S", "t", "a", "t", "i", "s", "t", "i", "c", "a", "l",
       " ", "C", "o", "n", "c", "e", "p", "t", "s", ":", "*", "*", "\n", "-",
       " ", "D", "e", "s", "c", "r", "i", "p", "t", "i", "v", "e", " ", "s",
       "t", "a", "t", "i", "s", "t", "i", "c", "s", ":", " ", "m", "e", "a",
       "n", ",", " ", "m", "e", "d", "i", "a", "n", ",", " ", "v", "a", "r",
       "i", "a", "n", "c", "e", ",", " ", "c", "o", "r", "r", "e", "l", "a",
       "t", "i", "o", "n", "\n", "-", " ", "I", "n", "f", "e", "r", "e", "n",
       "t", "i", "a", "l", " ", "s", "t", "a", "t", "i", "s", "t", "i", "c",
       "s", ":", " ", "h", "y", "p", "o", "t", "h", "e", "s", "i", "s", " ",
       "t", "e", "s", "t", "i", "n", "g", ",", " ", "c", "o", "n", "f", "i",
       "d", "e", "n", "c", "e", " ", "i", "n", "t", "e", "r", "v", "a", "l",
       "s", "\n", "-", " ", "P", "r", "o", "b", "a", "b", "i", "l", "i", "t",
       "y", " ", "d", "i", "s", "t", "r", "i", "b", "u", "t", "i", "o", "n",
       "s", " ", "a", "n", "d", " ", "t", "h", "e", "i", "r", " ", "a", "p",
       "p", "l", "i", "c", "a", "t", "i", "o", "n", "s", "\n", "-", " ", "R",
       "e", "g", "r", "e", "s", "s", "i", "o", "n", " ", "a", "n", "a", "l",
       "y", "s", "i", "s", " ", "a", "n", "d", " ", "t", "i", "m", "e", " ",
       "s", "e", "r", "i", "e", "s", " ", "f", "o", "r", "e", "c", "a", "s",
       "t", "i", "n", "g", "\n", "-", " ", "A", "/", "B", " ", "t", "e", "s",
       "t", "i", "n", "g", " ", "f", "o", "r", " ", "e", "x", "p", "e", "r",
       "i", "m", "e", "n", "t", "a", "l", " ", "d", "e", "s", "i", "g", "n">>]

\* The branch of lines 213-236: its terms, in the order any() tries them,
\* and its knowledge_addition.
BusinessTopic ==
  [terms |->
     <<<<"b", "u", "s", "i", "n", "e", "s", "s">>,
       <<"m", "a", "r", "k", "e", "t", "i", "n", "g">>,
       <<"f", "i", "n", "a", "n", "c", "e">>,
       <<"e", "c", "o", "n", "o", "m", "i", "c", "s">>,
       <<"m", "a", "n", "a", "g", "e", "m", "e", "n", "t">>>>,
   text |->
     <<"*", "*", "B", "u", "s", "i", "n", "e", "s", "s", " ", "&", " ", "E",
       "c", "o", "n", "o", "m", "i", "c", "s", "*", "*", "\n", "\n", "B", "u",
       "s", "i", "n", "e", "s", "s", " ", "i", "n", "v", "o", "l", "v", "e",
       "s", " ", "t", "h", "e", " ", "c", "r", "e", "a", "t", "i", "o", "n",
       ",", " ", "e", "x", "c", "h", "a", "n", "g", "e", ",", " ", "a", "n",
       "d", " ", "m", "a", "n", "a", "g", "e", "m", "e", "n", "t", " ", "o",
       "f", " ", "v", "a", "l", "u", "e", " ", "t", "h", "r", "o", "u", "g",
       "h", " ", "g", "o", "o", "d", "s", " ", "a", "n", "d", " ", "s", "e",
       "r", "v", "i", "c", "e", "s", ".", "\n", "\n", "*", "*", "C", "o", "r",
       "e", " ", "B", "u", "s", "i", "n", "e", "s", "s", " ", "F", "u", "n",
       "c", "t", "i", "o", "n", "s", ":", "*", "*", "\n", "-", " ", "*", "*",
       "S", "t", "r", "a", "t", "e", "g", "y", "*", "*", ":", " ", "L", "o",
       "n", "g", "-", "t", "e", "r", "m", " ", "p", "l", "a", "n", "n", "i",
       "n", "g", ",", " ", "c", "o", "m", "p", "e", "t", "i", "t", "i", "v",
       "e", " ", "a", "n", "a", "l", "y", "s", "i", "s", ",", " ", "m", "a",
       "r", "k", "e", "t", " ", "p", "o", "s", "i", "t", "i", "o", "n", "i",
       "n", "g", "\n", "-", " ", "*", "*", "M", "a", "r", "k", "e", "t", "i",
       "n", "g", "*", "*", ":", " ", "C", "u", "s", "t", "o", "m", "e", "r",
       " ", "a", "c", "q", "u", "i", "s", "i", "t", "i", "o", "n", ",", " ",
       "b", "r", "a", "n", "d", " ", "b", "u", "i", "l", "d", "i", "n", "g",
       ",", " ", "d", "i", "g", "i", "t", "a", "l", " ", "m", "a", "r", "k",
       "e", "t", "i", "n", "g", ",", " ", "c", "o", "n", "t", "e", "n", "t",
       " ", "s", "t", "r", "a", "t", "e", "g", "y", "\n", "-", " ", "*", "*",
       "O", "p", "e", "r", "a", "t", "i", "o", "n", "s", "*", "*", ":", " ",
       "S", "u", "p", "p", "l", "y", " ", "c", "h", "a", "i", "n", ",", " ",
       "q", "u", "a", "l", "i", "t", "y", " ", "m", "a", "n", "a", "g", "e",
       "m", "e", "n", "t", ",", " ", "p", "r", "o", "c", "e", "s", "s", " ",
       "o", "p", "t", "i", "m", "i", "z", "a", "t", "i", "o", "n", "\n", "-",
       " ", "*", "*", "F", "i", "n", "a", "n", "c", "e", "*", "*", ":", " ",
       "C", "a", "p", "i", "t", "a", "l", " ", "m", "a", "n", "a", "g", "e",
       "m", "e", "n", "t", ",", " ", "i", "n", "v", "e", "s", "t", "m", "e",
       "n", "t", " ", "a", "n", "a", "l", "y", "s", "i", "s", ",", " ", "f",
       "i", "n", "a", "n", "c", "i", "a", "l", " ", "p", "l", "a", "n", "n",
       "i", "n", "g", ",", " ", "b", "u", "d", "g", "e", "t", "i", "n", "g",
       "\n", "-", " ", "*", "*", "H", "u", "m", "a", "n", " ", "R", "e", "s",
       "o", "u", "r", "c", "e", "s", "*", "*", ":", " ", "T", "a", "l", "e",
       "n", "t", " ", "a", "c", "q", "u", "i", "s", "i", "t", "i", "o", "n",
       ",", " ", "p", "e", "r", "f", "o", "r", "m", "a", "n", "c", "e", " ",
       "m", "a", "n", "a", "g", "e", "m", "e", "n", "t", ",", " ", "o", "r",
       "g", "a", "n", "i", "z", "a", "t", "i", "o", "n", "a", "l", " ", "d",
       "e", "v", "e", "l", "o", "p", "m", "e", "n", "t", "\n", "\n", "*", "*",
       "E", "c", "o", "n", "o", "m", "i", "c", " ", "P", "r", "i", "n", "c",
       "i", "p", "l", "e", "s", ":", "*", "*", "\n", "-", " ", "S", "u", "p",
       "p", "l", "y", " ", "a", "n", "d", " ", "d", "e", "m", "a", "n", "d",
       " ", "d", "y", "n", "a", "m", "i", "c", "s", " ", "a", "f", "f", "e",
       "c", "t", "i", "n", "g", " ", "p", "r", "i", "c", "i", "n", "g", " ",
       "a", "n", "d", " ", "m", "a", "r", "k", "e", "t", " ", "e", "q", "u",
       "i", "l", "i", "b", "r", "i", "u", "m", "\n", "-", " ", "M", "a", "r",
       "k", "e", "t", " ", "s", "t", "r", "u", "c", "t", "u", "r", "e", "s",
       ":", " ", "p", "e", "r", "f", "e", "c", "t", " ", "c", "o", "m", "p",
       "e", "t", "i", "t", "i", "o", "n", ",", " ", "m", "o", "n", "o", "p",
       "o", "l", "y", ",", " ", "o", "l", "i", "g", "o", "p", "o", "l", "y",
       "\n", "-", " ", "M", "a", "c", "r", "o", "e", "c", "o", "n", "o", "m",
       "i", "c", " ", "i", "n", "d", "i", "c", "a", "t", "o", "r", "s", ":",
       " ", "G", "D", "P", ",", " ", "i", "n", "f", "l", "a", "t", "i", "o",
       "n", ",", " ", "u", "n", "e", "m", "p", "l", "o", "y", "m", "e", "n",
       "t", ",", " ", "i", "n", "t", "e", "r", "e", "s", "t", " ", "r", "a",
       "t", "e", "s", "\n", "-", " ", "I", "n", "t", "e", "r", "n", "a", "t",
       "i", "o", "n", "a", "l", " ", "t", "r", "a", "d", "e", " ", "a", "n",
       "d", " ", "g", "l", "o", "b", "a", "l", "i", "z", "a", "t", "i", "o",
       "n", " ", "i", "m", "p", "a", "c", "t", "s", "\n", "\n", "*", "*", "M",
       "o", "d", "e", "r", "n", " ", "B", "u", "s", "i", "n", "e", "s", "s",
       " ", "T", "r", "e", "n", "d", "s", ":", "*", "*", "\n", "-", " ", "D",
       "i", "g", "i", "t", "a", "l", " ", "t", "r", "a", "n", "s", "f", "o",
       "r", "m", "a", "t", "i", "o", "n", " ", "a", "n", "d", " ", "e", "-",
       "c", "o", "m", "m", "e", "r", "c", "e", " ", "g", "r", "o", "w", "t",
       "h", "\n", "-", " ", "S", "u", "s", "t", "a", "i", "n", "a", "b", "l",
       "e", " ", "b", "u", "s", "i", "n", "e", "s", "s", " ", "p", "r", "a",
       "c", "t", "i", "c", "e", "s", " ", "a", "n", "d", " ", "E", "S", "G",
       " ", "(", "E", "n", "v", "i", "r", "o", "n", "m", "e", "n", "t", "a",
       "l", ",", " ", "S", "o", "c", "i", "a", "l", ",", " ", "G", "o", "v",
       "e", "r", "n", "a", "n", "c", "e", ")", "\n", "-", " ", "R", "e", "m",
       "o", "t", "e", " ", "w", "o", "r", "k", " ", "a", "n", "d", " ", "d",
       "i", "s", "t", "r", "i", "b", "u", "t", "e", "d", " ", "t", "e", "a",
       "m", "s", "\n", "-", " ", "D", "a", "t", "a", "-", "d", "r", "i", "v",
       "e", "n", " ", "d", "e", "c", "i", "s", "i", "o", "n", " ", "m", "a",
       "k", "i", "n", "g", " ", "a", "n", "d", " ", "b", "u", "s", "i", "n",
       "e", "s", "s", " ", "i", "n", "t", "e", "l", "l", "i", "g", "e", "n",
       "c", "e", "\n", "-", " ", "S", "u", "b", "s", "c", "r", "i", "p", "t",
       "i", "o", "n", " ", "a", "n", "d", " ", "p", "l", "a", "t", "f", "o",
       "r", "m", " ", "b", "u", "s", "i", "n", "e", "s", "s", " ", "m", "o",
       "d", "e", "l", "s">>]

\* The branch of lines 238-260: its terms, in the order any() tries them,
\* and its knowledge_addition.
HealthTopic ==
  [terms |->
     <<<<"h", "e", "a", "l", "t", "h">>,
       <<"m", "e", "d", "i", "c", "i", "n", "e">>,
       <<"b", "i", "o", "l", "o", "g", "y">>,
       <<"h", "e", "a", "l", "t", "h", "c", "a", "r", "e">>,
       <<"m", "e", "d", "i", "c", "a", "l">>>>,
   text |->
     <<"*", "*", "H", "e", "a", "l", "t", "h", " ", "&", " ", "M", "e", "d",
       "i", "c", "a", "l", " ", "S", "c", "i", "e", "n", "c", "e", "s", "*",
       "*", "\n", "\n", "H", "e", "a", "l", "t", "h", "c", "a", "r", "e", " ",
       "e", "n", "c", "o", "m", "p", "a", "s", "s", "e", "s", " ", "t", "h",
       "e", " ", "p", "r", "e", "v", "e", "n", "t", "i", "o", "n", ",", " ",
       "d", "i", "a", "g", "n", "o", "s", "i", "s", ",", " ", "t", "r", "e",
       "a", "t", "m", "e", "n", "t", ",", " ", "a", "n", "d", " ", "m", "a",
       "n", "a", "g", "e", "m", "e", "n", "t", " ", "o", "f", " ", "i", "l",
       "l", "n", "e", "s", "s", " ", "a", "n", "d", " ", "d", "i", "s", "e",
       "a", "s", "e", ".", "\n", "\n", "*", "*", "M", "e", "d", "i", "c", "a",
       "l", " ", "S", "p", "e", "c", "i", "a", "l", "t", "i", "e", "s", ":",
       "*", "*", "\n", "-", " ", "*", "*", "P", "r", "i", "m", "a", "r", "y",
       " ", "C", "a", "r", "e", "*", "*", ":", " ", "F", "a", "m", "i", "l",
       "y", " ", "m", "e", "d", "i", "c", "i", "n", "e", ",", " ", "i", "n",
       "t", "e", "r", "n", "a", "l", " ", "m", "e", "d", "i", "c", "i", "n",
       "e", ",", " ", "p", "e", "d", "i", "a", "t", "r", "i", "c", "s", "\n",
       "-", " ", "*", "*", "S", "p", "e", "c", "i", "a", "l", "i", "s", "t",
       " ", "C", "a", "r", "e", "*", "*", ":", " ", "C", "a", "r", "d", "i",
       "o", "l", "o", "g", "y", ",", " ", "n", "e", "u", "r", "o", "l", "o",
       "g", "y", ",", " ", "o", "n", "c", "o", "l", "o", "g", "y", ",", " ",
       "o", "r", "t", "h", "o", "p", "e", "d", "i", "c", "s", "\n", "-", " ",
       "*", "*", "D", "i", "a", "g", "n", "o", "s", "t", "i", "c", "*", "*",
       ":", " ", "R", "a", "d", "i", "o", "l", "o", "g", "y", ",", " ", "p",
       "a", "t", "h", "o", "l", "o", "g", "y", ",", " ", "l", "a", "b", "o",
       "r", "a", "t", "o", "r", "y", " ", "m", "e", "d", "i", "c", "i", "n",
       "e", "\n", "-", " ", "*", "*", "S", "u", "r", "g", "i", "c", "a", "l",
       "*", "*", ":", " ", "G", "e", "n", "e", "r", "a", "l", " ", "s", "u",
       "r", "g", "e", "r", "y", ",", " ", "s", "p", "e", "c", "i", "a", "l",
       "i", "z", "e", "d", " ", "s", "u", "r", "g", "i", "c", "a", "l", " ",
       "p", "r", "o", "c", "e", "d", "u", "r", "e", "s", "\n", "-", " ", "*",
       "*", "M", "e", "n", "t", "a", "l", " ", "H", "e", "a", "l", "t", "h",
       "*", "*", ":", " ", "P", "s", "y", "c", "h", "i", "a", "t", "r", "y",
       ",", " ", "p", "s", "y", "c", "h", "o", "l", "o", "g", "y", ",", " ",
       "c", "o", "u", "n", "s", "e", "l", "i", "n", "g", "\n", "\n", "*", "*",
       "P", "u", "b", "l", "i", "c", " ", "H", "e", "a", "l", "t", "h", " ",
       "C", "o", "n", "c", "e", "p", "t", "s", ":", "*", "*", "\n", "-", " ",
       "E", "p", "i", "d", "e", "m", "i", "o", "l", "o", "g", "y", ":", " ",
       "S", "t", "u", "d", "y", " ", "o", "f", " ", "d", "i", "s", "e", "a",
       "s", "e", " ", "p", "a", "t", "t", "e", "r", "n", "s", " ", "a", "n",
       "d", " ", "p", "r", "e", "v", "e", "n", "t", "i", "o", "n", "\n", "-",
       " ", "P", "r", "e", "v", "e", "n", "t", "i", "v", "e", " ", "m", "e",
       "d", "i", "c", "i", "n", "e", ":", " ", "V", "a", "c", "c", "i", "n",
       "a", "t", "i", "o", "n", ",", " ", "s", "c", "r", "e", "e", "n", "i",
       "n", "g", ",", " ", "l", "i", "f", "e", "s", "t", "y", "l", "e", " ",
       "i", "n", "t", "e", "r", "v", "e", "n", "t", "i", "o", "n", "s", "\n",
       "-", " ", "H", "e", "a", "l", "t", "h", " ", "p", "o", "l", "i", "c",
       "y", " ", "a", "n", "d", " ", "h", "e", "a", "l", "t", "h", "c", "a",
       "r", "e", " ", "s", "y", "s", "t", "e", "m", "s", " ", "m", "a", "n",
       "a", "g", "e", "m", "e", "n", "t", "\n", "-", " ", "G", "l", "o", "b",
       "a", "l", " ", "h", "e", "a", "l", "t", "h", " ", "c", "h", "a", "l",
       "l", "e", "n", "g", "e", "s", ":", " ", "i", "n", "f", "e", "c", "t",
       "i", "o", "u", "s", " ", "d", "i", "s", "e", "a", "s", "e", "s", ",",
       " ", "c", "h", "r", "o", "n", "i", "c", " ", "c", "o", "n", "d", "i",
       "t", "i", "o", "n", "s", "\n", "\n", "*", "*", "M", "e", "d", "i", "c",
       "a", "l", " ", "T", "e", "c", "h", "n", "o", "l", "o", "g", "y", ":",
       "*", "*", "\n", "-", " ", "T", "e", "l", "e", "m", "e", "d", "i", "c",
       "i", "n", "e", " ", "a", "n", "d", " ", "d", "i", "g", "i", "t", "a",
       "l", " ", "h", "e", "a", "l", "t", "h", " ", "p", "l", "a", "t", "f",
       "o", "r", "m", "s", "\n", "-", " ", "M", "e", "d", "i", "c", "a", "l",
       " ", "i", "m", "a", "g", "i", "n", "g", ":", " ", "M", "R", "I", ",",
       " ", "C", "T", ",", " ", "u", "l", "t", "r", "a", "s", "o", "u", "n",
       "d", ",", " ", "X", "-", "r", "a", "y", "\n", "-", " ", "E", "l", "e",
       "c", "t", "r", "o", "n", "i", "c", " ", "h", "e", "a", "l", "t", "h",
       " ", "r", "e", "c", "o", "r", "d", "s", " ", "a", "n", "d", " ", "h",
       "e", "a", "l", "t", "h", " ", "i", "n", "f", "o", "r", "m", "a", "t",
       "i", "o", "n", " ", "s", "y", "s", "t", "e", "m", "s", "\n", "-", " ",
       "P", "r", "e", "c", "i", "s", "i", "o", "n", " ", "m", "e", "d", "i",
       "c", "i", "n", "e", " ", "a", "n", "d", " ", "p", "e", "r", "s", "o",
       "n", "a", "l", "i", "z", "e", "d", " ", "t", "r", "e", "a", "t", "m",
       "e", "n", "t", " ", "a", "p", "p", "r", "o", "a", "c", "h", "e", "s">>]

\* The branch of lines 262-283: its terms, in the order any() tries them,
\* and its knowledge_addition.
EducationTopic ==
  [terms |->
     <<<<"e", "d", "u", "c", "a", "t", "i", "o", "n">>,
       <<"l", "e", "a", "r", "n", "i", "n", "g">>,
       <<"t", "e", "a", "c", "h", "i", "n", "g">>,
       <<"s", "c", "h", "o", "o", "l">>,
       <<"u", "n", "i", "v", "e", "r", "s", "i", "t", "y">>>>,
   text |->
     <<"*", "*", "E", "d", "u", "c", "a", "t", "i", "o", "n", " ", "&", " ",
       "L", "e", "a", "r", "n", "i", "n", "g", " ", "S", "c", "i", "e", "n",
       "c", "e", "s", "*", "*", "\n", "\n", "E", "d", "u", "c", "a", "t", "i",
       "o", "n", " ", "i", "s", " ", "t", "h", "e", " ", "p", "r", "o", "c",
       "e", "s", "s", " ", "o", "f", " ", "f", "a", "c", "i", "l", "i", "t",
       "a", "t", "i", "n", "g", " ", "l", "e", "a", "r", "n", "i", "n", "g",
       " ", "a", "n", "d", " ", "s", "k", "i", "l", "l", " ", "d", "e", "v",
       "e", "l", "o", "p", "m", "e", "n", "t", " ", "t", "h", "r", "o", "u",
       "g", "h", " ", "i", "n", "s", "t", "r", "u", "c", "t", "i", "o", "n",
       " ", "a", "n", "d", " ", "e", "x", "p", "e", "r", "i", "e", "n", "c",
       "e", ".", "\n", "\n", "*", "*", "E", "d", "u", "c", "a", "t", "i", "o",
       "n", "a", "l", " ", "A", "p", "p", "r", "o", "a", "c", "h", "e", "s",
       ":", "*", "*", "\n", "-", " ", "*", "*", "T", "r", "a", "d", "i", "t",
       "i", "o", "n", "a", "l", "*", "*", ":", " ", "C", "l", "a", "s", "s",
       "r", "o", "o", "m", "-", "b", "a", "s", "e", "d", " ", "i", "n", "s",
       "t", "r", "u", "c", "t", "i", "o", "n", " ", "w", "i", "t", "h", " ",
       "t", "e", "a", "c", "h", "e", "r", "-", "l", "e", "d", " ", "l", "e",
       "a", "r", "n", "i", "n", "g", "\n", "-", " ", "*", "*", "P", "r", "o",
       "g", "r", "e", "s", "s", "i", "v", "e", "*", "*", ":", " ", "S", "t",
       "u", "d", "e", "n", "t", "-", "c", "e", "n", "t", "e", "r", "e", "d",
       ",", " ", "e", "x", "p", "e", "r", "i", "e", "n", "t", "i", "a", "l",
       ",", " ", "a", "n", "d", " ", "p", "r", "o", "j", "e", "c", "t", "-",
       "b", "a", "s", "e", "d", " ", "l", "e", "a", "r", "n", "i", "n", "g",
       "\n", "-", " ", "*", "*", "M", "o", "n", "t", "e", "s", "s", "o", "r",
       "i", "*", "*", ":", " ", "S", "e", "l", "f", "-", "d", "i", "r", "e",
       "c", "t", "e", "d", " ", "a", "c", "t", "i", "v", "i", "t", "y", " ",
       "a", "n", "d", " ", "c", "o", "l", "l", "a", "b", "o", "r", "a", "t",
       "i", "v", "e", " ", "p", "l", "a", "y", "\n", "-", " ", "*", "*", "O",
       "n", "l", "i", "n", "e", "/", "D", "i", "g", "i", "t", "a", "l", "*",
       "*", ":", " ", "E", "-", "l", "e", "a", "r", "n", "i", "n", "g", " ",
       "p", "l", "a", "t", "f", "o", "r", "m", "s", ",", " ", "M", "O", "O",
       "C", "s", ",", " ", "v", "i", "r", "t", "u", "a", "l", " ", "c", "l",
       "a", "s", "s", "r", "o", "o", "m", "s", "\n", "\n", "*", "*", "L", "e",
       "a", "r", "n", "i", "n", "g", " ", "T", "h", "e", "o", "r", "i", "e",
       "s", ":", "*", "*", "\n", "-", " ", "C", "o", "n", "s", "t", "r", "u",
       "c", "t", "i", "v", "i", "s", "m", ":", " ", "L", "e", "a", "r", "n",
       "i", "n", "g", " ", "t", "h", "r", "o", "u", "g", "h", " ", "b", "u",
       "i", "l", "d", "i", "n", "g", " ", "u", "n", "d", "e", "r", "s", "t",
       "a", "n", "d", "i", "n", "g", " ", "a", "n", "d", " ", "k", "n", "o",
       "w", "l", "e", "d", "g", "e", "\n", "-", " ", "B", "e", "h", "a", "v",
       "i", "o", "r", "i", "s", "m", ":", " ", "L", "e", "a", "r", "n", "i",
       "n", "g", " ", "t", "h", "r", "o", "u", "g", "h", " ", "r", "e", "i",
       "n", "f", "o", "r", "c", "e", "m", "e", "n", "t", " ", "a", "n", "d",
       " ", "c", "o", "n", "d", "i", "t", "i", "o", "n", "i", "n", "g", "\n",
       "-", " ", "C", "o", "g", "n", "i", "t", "i", "v", "i", "s", "m", ":",
       " ", "F", "o", "c", "u", "s", " ", "o", "n", " ", "m", "e", "n", "t",
       "a", "l", " ", "p", "r", "o", "c", "e", "s", "s", "e", "s", " ", "a",
       "n", "d", " ", "i", "n", "f", "o", "r", "m", "a", "t", "i", "o", "n",
       " ", "p", "r", "o", "c", "e", "s", "s", "i", "n", "g", "\n", "-", " ",
       "S", "o", "c", "i", "a", "l", " ", "L", "e", "a", "r", "n", "i", "n",
       "g", ":", " ", "L", "e", "a", "r", "n", "i", "n", "g", " ", "t", "h",
       "r", "o", "u", "g", "h", " ", "o", "b", "s", "e", "r", "v", "a", "t",
       "i", "o", "n", " ", "a", "n", "d", " ", "s", "o", "c", "i", "a", "l",
       " ", "i", "n", "t", "e", "r", "a", "c", "t", "i", "o", "n", "\n", "\n",
       "*", "*", "E", "d", "u", "c", "a", "t", "i", "o", "n", "a", "l", " ",
       "T", "e", "c", "h", "n", "o", "l", "o", "g", "y", ":", "*", "*", "\n",
       "-", " ", "L", "e", "a", "r", "n", "i", "n", "g", " ", "M", "a", "n",
       "a", "g", "e", "m", "e", "n", "t", " ", "S", "y", "s", "t", "e", "m",
       "s", " ", "(", "L", "M", "S", ")", ":", " ", "C", "a", "n", "v", "a",
       "s", ",", " ", "B", "l", "a", "c", "k", "b", "o", "a", "r", "d", ",",
       " ", "M", "o", "o", "d", "l", "e", "\n", "-", " ", "E", "d", "u", "c",
       "a", "t", "i", "o", "n", "a", "l", " ", "a", "p", "p", "s", " ", "a",
       "n", "d", " ", "g", "a", "m", "i", "f", "i", "c", "a", "t", "i", "o",
       "n", "\n", "-", " ", "V", "i", "r", "t", "u", "a", "l", " ", "a", "n",
       "d", " ", "a", "u", "g", "m", "e", "n", "t", "e", "d", " ", "r", "e",
       "a", "l", "i", "t", "y", " ", "i", "n", " ", "e", "d", "u", "c", "a",
       "t", "i", "o", "n", "\n", "-", " ", "A", "I", "-", "p", "o", "w", "e",
       "r", "e", "d", " ", "a", "d", "a", "p", "t", "i", "v", "e", " ", "l",
       "e", "a", "r", "n", "i", "n", "g", " ", "s", "y", "s", "t", "e", "m",
       "s">>]

\* The branches of the if/elif chain of _enhance_with_knowledge, in order.
KnowledgeTopics ==
  <<MachineLearningTopic,
    RenewableEnergyTopic,
    ClimateChangeTopic,
    ProgrammingTopic,
    DataScienceTopic,
    BusinessTopic,
    HealthTopic,
    EducationTopic>>

\* The else branch of _enhance_with_knowledge.
DefaultAnswer ==
  <<"*", "*", "A", "n", "s", "w", "e", "r", ":", "*", "*", "\n", "\n", "I",
    " ", "c", "a", "n", " ", "h", "e", "l", "p", " ", "e", "x", "p", "l", "a",
    "i", "n", " ", "t", "h", "i", "s", " ", "t", "o", "p", "i", "c", " ", "u",
    "s", "i", "n", "g", " ", "m", "y", " ", "k", "n", "o", "w", "l", "e", "d",
    "g", "e", " ", "b", "a", "s", "e", " ", "w", "h", "i", "c", "h", " ", "c",
    "o", "v", "e", "r", "s", ":", "\n", "\n", "U+2022", " ", "*", "*", "S",
    "c", "i", "e", "n", "c", "e", " ", "&", " ", "T", "e", "c", "h", "n", "o",
    "l", "o", "g", "y", "*", "*", " ", "-", " ", "A", "I", ",", " ", "p", "r",
    "o", "g", "r", "a", "m", "m", "i", "n", "g", ",", " ", "d", "a", "t", "a",
    " ", "s", "c", "i", "e", "n", "c", "e", ",", " ", "e", "n", "g", "i", "n",
    "e", "e", "r", "i", "n", "g", "\n", "U+2022", " ", "*", "*", "E", "n",
    "v", "i", "r", "o", "n", "m", "e", "n", "t", " ", "&", " ", "E", "n", "e",
    "r", "g", "y", "*", "*", " ", "-", " ", "C", "l", "i", "m", "a", "t", "e",
    " ", "c", "h", "a", "n", "g", "e", ",", " ", "r", "e", "n", "e", "w", "a",
    "b", "l", "e", " ", "e", "n", "e", "r", "g", "y", ",", " ", "s", "u", "s",
    "t", "a", "i", "n", "a", "b", "i", "l", "i", "t", "y", " ", " ", "\n",
    "U+2022", " ", "*", "*", "B", "u", "s", "i", "n", "e", "s", "s", " ", "&",
    " ", "E", "c", "o", "n", "o", "m", "i", "c", "s", "*", "*", " ", "-", " ",
    "M", "a", "n", "a", "g", "e", "m", "e", "n", "t", ",", " ", "f", "i", "n",
    "a", "n", "c", "e", ",", " ", "m", "a", "r", "k", "e", "t", "i", "n", "g",
    ",", " ", "s", "t", "r", "a", "t", "e", "g", "y", "\n", "U+2022", " ",
    "*", "*", "H", "e", "a", "l", "t", "h", " ", "&", " ", "M", "e", "d", "i",
    "c", "i", "n", "e", "*", "*", " ", "-", " ", "H", "e", "a", "l", "t", "h",
    "c", "a", "r", "e", " ", "s", "y", "s", "t", "e", "m", "s", ",", " ", "m",
    "e", "d", "i", "c", "a", "l", " ", "r", "e", "s", "e", "a", "r", "c", "h",
    ",", " ", "p", "u", "b", "l", "i", "c", " ", "h", "e", "a", "l", "t", "h",
    "\n", "U+2022", " ", "*", "*", "E", "d", "u", "c", "a", "t", "i", "o",
    "n", " ", "&", " ", "L", "e", "a", "r", "n", "i", "n", "g", "*", "*", " ",
    "-", " ", "T", "e", "a", "c", "h", "i", "n", "g", " ", "m", "e", "t", "h",
    "o", "d", "s", ",", " ", "e", "d", "u", "c", "a", "t", "i", "o", "n", "a",
    "l", " ", "t", "e", "c", "h", "n", "o", "l", "o", "g", "y", "\n", "\n",
    "P", "l", "e", "a", "s", "e", " ", "a", "s", "k", " ", "m", "e", " ", "a",
    "b", "o", "u", "t", " ", "a", "n", "y", " ", "s", "p", "e", "c", "i", "f",
    "i", "c", " ", "t", "o", "p", "i", "c", " ", "a", "n", "d", " ", "I", "'",
    "l", "l", " ", "p", "r", "o", "v", "i", "d", "e", " ", "d", "e", "t", "a",
    "i", "l", "e", "d", " ", "e", "x", "p", "l", "a", "n", "a", "t", "i", "o",
    "n", "s", " ", "w", "i", "t", "h", " ", "e", "x", "a", "m", "p", "l", "e",
    "s", " ", "a", "n", "d", " ", "p", "r", "a", "c", "t", "i", "c", "a", "l",
    " ", "c", "o", "n", "t", "e", "x", "t", ".">>

ExampleTriggers == <<<<"e", "x", "p", "l", "a", "i", "n">>, <<"h", "o", "w", " ", "d", "o", "e", "s">>, <<"w", "h", "a", "t", " ", "i", "s">>>>

TechnologyExample ==
  <<"F", "o", "r", " ", "e", "x", "a", "m", "p", "l", "e", ",", " ", "s", "m",
    "a", "r", "t", "p", "h", "o", "n", "e", "s", " ", "c", "o", "m", "b", "i",
    "n", "e", " ", "m", "u", "l", "t", "i", "p", "l", "e", " ", "t", "e", "c",
    "h", "n", "o", "l", "o", "g", "i", "e", "s", ":", " ", "p", "r", "o", "c",
    "e", "s", "s", "o", "r", "s", " ", "f", "o", "r", " ", "c", "o", "m", "p",
    "u", "t", "a", "t", "i", "o", "n", ",", " ", "t", "o", "u", "c", "h", "s",
    "c", "r", "e", "e", "n", "s", " ", "f", "o", "r", " ", "i", "n", "p", "u",
    "t", ",", " ", "w", "i", "r", "e", "l", "e", "s", "s", " ", "r", "a", "d",
    "i", "o", "s", " ", "f", "o", "r", " ", "c", "o", "m", "m", "u", "n", "i",
    "c", "a", "t", "i", "o", "n", ",", " ", "a", "n", "d", " ", "s", "e", "n",
    "s", "o", "r", "s", " ", "f", "o", "r", " ", "e", "n", "v", "i", "r", "o",
    "n", "m", "e", "n", "t", "a", "l", " ", "a", "w", "a", "r", "e", "n", "e",
    "s", "s", ".">>

ProcessExample ==
  <<"F", "o", "r", " ", "i", "n", "s", "t", "a", "n", "c", "e", ",", " ", "t",
    "h", "e", " ", "s", "c", "i", "e", "n", "t", "i", "f", "i", "c", " ", "m",
    "e", "t", "h", "o", "d", " ", "f", "o", "l", "l", "o", "w", "s", " ", "a",
    " ", "s", "y", "s", "t", "e", "m", "a", "t", "i", "c", " ", "p", "r", "o",
    "c", "e", "s", "s", ":", " ", "o", "b", "s", "e", "r", "v", "a", "t", "i",
    "o", "n", ",", " ", "h", "y", "p", "o", "t", "h", "e", "s", "i", "s", " ",
    "f", "o", "r", "m", "a", "t", "i", "o", "n", ",", " ", "e", "x", "p", "e",
    "r", "i", "m", "e", "n", "t", "a", "t", "i", "o", "n", ",", " ", "d", "a",
    "t", "a", " ", "a", "n", "a", "l", "y", "s", "i", "s", ",", " ", "a", "n",
    "d", " ", "c", "o", "n", "c", "l", "u", "s", "i", "o", "n", " ", "d", "r",
    "a", "w", "i", "n", "g", ".">>

SystemExample ==
  <<"C", "o", "n", "s", "i", "d", "e", "r", " ", "a", "n", " ", "e", "c", "o",
    "s", "y", "s", "t", "e", "m", " ", "a", "s", " ", "a", " ", "s", "y", "s",
    "t", "e", "m", ":", " ", "p", "r", "o", "d", "u", "c", "e", "r", "s", " ",
    "(", "p", "l", "a", "n", "t", "s", ")", " ", "c", "o", "n", "v", "e", "r",
    "t", " ", "s", "u", "n", "l", "i", "g", "h", "t", " ", "t", "o", " ", "e",
    "n", "e", "r", "g", "y", ",", " ", "p", "r", "i", "m", "a", "r", "y", " ",
    "c", "o", "n", "s", "u", "m", "e", "r", "s", " ", "(", "h", "e", "r", "b",
    "i", "v", "o", "r", "e", "s", ")", " ", "e", "a", "t", " ", "p", "l", "a",
    "n", "t", "s", ",", " ", "s", "e", "c", "o", "n", "d", "a", "r", "y", " ",
    "c", "o", "n", "s", "u", "m", "e", "r", "s", " ", "(", "c", "a", "r", "n",
    "i", "v", "o", "r", "e", "s", ")", " ", "e", "a", "t", " ", "h", "e", "r",
    "b", "i", "v", "o", "r", "e", "s", ",", " ", "a", "n", "d", " ", "d", "e",
    "c", "o", "m", "p", "o", "s", "e", "r", "s", " ", "r", "e", "c", "y", "c",
    "l", "e", " ", "n", "u", "t", "r", "i", "e", "n", "t", "s", ".">>

WebSources ==
  <<
            <<"I", "n", "t", "e", "r", "n", "a", "l", " ", "K", "n", "o", "w",
              "l", "e", "d", "g", "e", " ", "B", "a", "s", "e">>,

            <<"D", "o", "m", "a", "i", "n", " ", "E", "x", "p", "e", "r", "t",
              "i", "s", "e", " ", "R", "e", "p", "o", "s", "i", "t", "o", "r",
              "y">>,

            <<"B", "e", "s", "t", " ", "P", "r", "a", "c", "t", "i", "c", "e",
              "s", " ", "D", "a", "t", "a", "b", "a", "s", "e">>,

            <<"C", "o", "n", "t", "e", "x", "t", "u", "a", "l", " ", "E", "x",
              "a", "m", "p", "l", "e", "s">>>>

UserDocuments ==
            <<"U", "s", "e", "r", " ", "D", "o", "c", "u", "m", "e", "n", "t",
              "s">>

RecentConversationsLabel ==
            <<"R", "e", "c", "e", "n", "t", " ", "c", "o", "n", "v", "e", "r",
              "s", "a", "t", "i", "o", "n", "s">>

\* context[:400] of _enhance_with_knowledge
DocumentContextLimit == 400

\* The 1-based numbers of the branches of the chain one of whose terms is in
\* query_lower.
MatchedTopics(query_lower) ==
  {t \in 1..Len(KnowledgeTopics) :
     \E k \in 1..Len(KnowledgeTopics[t].terms) :
       Contains(query_lower, KnowledgeTopics[t].terms[k])}

\* knowledge_addition: the text of the first branch of the if/elif chain
\* that matches, or "".
KnowledgeAddition(query_lower) ==
  LET matched == MatchedTopics(query_lower)
  IN IF matched = {} THEN <<>> ELSE KnowledgeTopics[SetMin(matched)].text

\* The part of context that _enhance_with_knowledge puts after the knowledge.
DocumentExcerptBug(context) == Take(context, DocumentContextLimit - 1)

DocumentExcerpt(context) == Take(context, DocumentContextLimit)

\* _enhance_with_knowledge
EnhanceWithKnowledge(query, context) ==
  LET query_lower == Lower(query)
      knowledge_addition == KnowledgeAddition(query_lower)
  IN IF knowledge_addition # <<>>
       THEN Strip(knowledge_addition) \o
            (IF context # <<>> /\ Strip(context) # <<>>
                  /\ Contains(context, <<"F", "r", "o", "m", " ">>)
               THEN
            <<"\n", "\n", "*", "*", "F", "r", "o", "m", " ", "Y", "o", "u",
              "r", " ", "D", "o", "c", "u", "m", "e", "n", "t", "s", ":", "*",
              "*", "\n">> \o DocumentExcerpt(context)
               ELSE <<>>)
     ELSE IF context # <<>> /\ Strip(context) # <<>>
       THEN
            <<"*", "*", "A", "n", "s", "w", "e", "r", " ", "B", "a", "s", "e",
              "d", " ", "o", "n", " ", "Y", "o", "u", "r", " ", "D", "o", "c",
              "u", "m", "e", "n", "t", "s", ":", "*", "*", "\n", "\n">> \o context
     ELSE DefaultAnswer

\* get_contextual_examples
ContextualExamples(query) ==
  LET query_lower == Lower(query)
  IN IF \E k \in 1..Len(ExampleTriggers) :
          Contains(query_lower, ExampleTriggers[k])
       THEN IF Contains(query_lower, <<"t", "e", "c", "h", "n", "o", "l", "o", "g", "y">>) THEN <<TechnologyExample>>
            ELSE IF Contains(query_lower, <<"p", "r", "o", "c", "e", "s", "s">>) THEN <<ProcessExample>>
            ELSE IF Contains(query_lower, <<"s", "y", "s", "t", "e", "m">>) THEN <<SystemExample>>
            ELSE <<>>
       ELSE <<>>

RECURSIVE NumberedExamples(_, _)
\* for i, example in enumerate(examples, 1): f"\n{i}. {example}"
NumberedExamples(examples, i) ==
  IF examples = <<>> THEN <<>>
  ELSE <<"\n", Digits[i + 1]>> \o <<".", " ">> \o examples[1]
       \o NumberedExamples(Tail(examples), i + 1)

\* search_and_enhance: (enhanced_context, sources)
SearchAndEnhance(query, context) ==
  LET examples == ContextualExamples(query)
  IN [context |->
        EnhanceWithKnowledge(query, context) \o
        (IF examples # <<>>
           THEN
            <<"\n", "\n", "*", "*", "C", "o", "n", "t", "e", "x", "t", "u",
              "a", "l", " ", "E", "x", "a", "m", "p", "l", "e", "s", ":", "*",
              "*">> \o NumberedExamples(examples, 1)
           ELSE <<>>),
      sources |->
        (IF context # <<>> THEN <<UserDocuments>> ELSE <<>>) \o WebSources]

\* -------------------------------------------------------------- retriever
\* similarity > 0.3
RelevantBug(similarity) ==
  ~IsNaN(similarity) /\ ~FloatLt(similarity, [dot |-> 3, nn |-> 100])

Relevant(similarity) == FloatGtRatio(similarity, 3, 10)

\* f"{similarity:.2f}" of a float in [0, 1] or nan: the hundredths nearest
\* to dot / sqrt(nn), the even one of two equally near.
FormatSimilarity(x) ==
  IF IsNaN(x) THEN <<"n", "a", "n">>
  ELSE LET near == {h \in 0..100 :
                      /\ (h = 0 \/ ~RatLt(x.dot * x.dot, x.nn,
                                           (2 * h - 1) * (2 * h - 1), 40000))
                      /\ ~RatLt((2 * h + 1) * (2 * h + 1), 40000,
                                x.dot * x.dot, x.nn)}
           h == IF Cardinality(near) = 1 THEN SetMin(near)
                ELSE CHOOSE e \in near : e % 2 = 0
       IN <<Digits[(h \div 100) + 1], ".", Digits[((h \div 10) % 10) + 1],
            Digits[(h % 10) + 1]>>

\* f"From {filename}: {content}"
DocumentEntry(hit) == <<"F", "r", "o", "m", " ">> \o hit.filename \o <<":", " ">> \o hit.content

\* f"{filename} (similarity: {similarity:.2f})"
DocumentSource(hit) ==
  hit.filename \o
            <<" ", "(", "s", "i", "m", "i", "l", "a", "r", "i", "t", "y", ":",
              " ">> \o FormatSimilarity(hit.similarity)
  \o <<")">>

RECURSIVE Select(_)
\* The hits the loop of lines 87-91 keeps, in order.
Select(hits) ==
  IF hits = <<>> THEN <<>>
  ELSE (IF Relevant(hits[1].similarity) THEN <<hits[1]>> ELSE <<>>)
       \o Select(Tail(hits))

\* user_msg[:100] + "..." if len(user_msg) > 100 else user_msg
UserMessageLimit == 100

AssistantMessageLimit == 150

Shorten(message, limit) ==
  IF Len(message) > limit THEN Take(message, limit) \o <<".", ".", ".">> ELSE message

RECURSIVE HistoryLines(_, _)
\* The Previous Q / Previous A lines of turns i + 1, i + 2, ... of recent.
HistoryLines(recent, i) ==
  IF recent = <<>> THEN <<>>
  ELSE <<<<"P", "r", "e", "v", "i", "o", "u", "s", " ", "Q">> \o <<Digits[i + 2]>> \o <<":", " ">>
           \o Shorten(recent[1].user_message, UserMessageLimit),
         <<"P", "r", "e", "v", "i", "o", "u", "s", " ", "A">> \o <<Digits[i + 2]>> \o <<":", " ">>
           \o Shorten(recent[1].assistant_response, AssistantMessageLimit)>>
       \o HistoryLines(Tail(recent), i + 1)

\* context_parts after the documents and the history were added.
ContextPartsBug(similar_chunks, recent) ==
  [i \in 1..Len(similar_chunks) |-> DocumentEntry(similar_chunks[i])]

ContextParts(similar_chunks, recent) ==
  LET kept == Select(similar_chunks)
  IN [i \in 1..Len(kept) |-> DocumentEntry(kept[i])] \o
     (IF recent # <<>>
        THEN <<
            <<"\n", "R", "e", "c", "e", "n", "t", " ", "c", "o", "n", "v",
              "e", "r", "s", "a", "t", "i", "o", "n", " ", "c", "o", "n", "t",
              "e", "x", "t", ":">>>> \o HistoryLines(recent, 0)
        ELSE <<>>)

\* sources before the web sources are added.
ContextSourcesBug(similar_chunks, recent) ==
  (IF recent # <<>> THEN <<RecentConversationsLabel>> ELSE <<>>) \o
  [i \in 1..Len(Select(similar_chunks)) |->
     DocumentSource(Select(similar_chunks)[i])]

ContextSources(similar_chunks, recent) ==
  LET kept == Select(similar_chunks)
  IN [i \in 1..Len(kept) |-> DocumentSource(kept[i])] \o
     (IF recent # <<>> THEN <<RecentConversationsLabel>> ELSE <<>>)

\* "\n".join(context_parts): one newline between two parts.
BaseContextBug(similar_chunks, recent) ==
  Join(ContextParts(similar_chunks, recent), <<"\n">>)

\* "\n\n".join(context_parts)
BaseContext(similar_chunks, recent) ==
  Join(ContextParts(similar_chunks, recent), <<"\n", "\n">>)

\* ---------------------------------------------------------- conversations
\* The number of turns get_relevant_context reads.
HistoryTurns == 2

RECURSIVE Orders(_)
\* The orders of the elements of a finite set.
Orders(S) ==
  IF S = {} THEN {<<>>}
  ELSE UNION {{<<x>> \o p : p \in Orders(S \ {x})} : x \in S}

\* SELECT user_message, assistant_response FROM conversations ORDER BY
\* created_at DESC LIMIT limit: the values the query may return. created_at
\* counts seconds, and SQL leaves the order of rows of one second open.
RecentConversations(limit) ==
  {[i \in 1..Min(limit, Len(p)) |->
      [user_message |-> conversations[p[i]].user_message,
       assistant_response |-> conversations[p[i]].assistant_response]] :
     p \in {q \in Orders(1..Len(conversations)) :
              \A i \in 1..(Len(q) - 1) :
                conversations[q[i]].created_at
                  >= conversations[q[i + 1]].created_at}}

MaxConversations == 2

\* store_conversation: the INSERT commits and True is returned, or the
\* database raises and False is returned. later tells whether
\* CURRENT_TIMESTAMP has moved on since the previous row: SQLite stores it in
\* whole seconds, PostgreSQL in microseconds, less than the time the new
\* connection of every call takes.
InsertConversation(user_message, assistant_response, context_used, later) ==
  Append(conversations,
         [user_message |-> user_message,
          assistant_response |-> assistant_response,
          context_used |-> context_used,
          created_at |->
            IF conversations = <<>> THEN 1
            ELSE conversations[Len(conversations)].created_at
                 + (IF later THEN 1 ELSE 0)])

StoreConversation(user_message, assistant_response, context_used, later) ==
  /\ Len(conversations) < MaxConversations
  /\ use_postgres => later
  /\ \/ /\ conversations' =
             InsertConversation(user_message, assistant_response,
                                context_used, later)
        /\ last' = [op |-> "store_conversation", result |-> TRUE]
     \/ /\ conversations' = conversations
        /\ last' = [op |-> "store_conversation", result |-> FALSE]
  /\ UNCHANGED documents
  /\ UNCHANGED <<chunkVars, ragVars, appVars>>

\* {}
EmptyDict == [key \in {} |-> 0]

\* The values CURRENT_TIMESTAMP had when the last row of documents was
\* stored; the rows of documents are read in rowid order and carry no time.
UploadTimes == {1, 2}

\* SELECT MAX(created_at): None on an empty table.
MaxCreatedAt(times) ==
  IF times = {} THEN [none |-> TRUE, at |-> 0]
  ELSE [none |-> FALSE, at |-> SetMax(times)]

\* The dict get_database_stats of DatabaseManager builds.
SQLiteStats(rows, turns) ==
  [unique_documents |-> DocumentCount(rows),
   total_chunks |-> Len(rows),
   total_conversations |-> Len(turns),
   database_type |-> "SQLite"]

\* The dict get_database_stats of PostgreSQLManager builds.
PostgreSQLStats(rows, turns, uploaded) ==
  [unique_documents |-> DocumentCount(rows),
   total_chunks |-> Len(rows),
   total_conversations |-> Len(turns),
   last_document_upload |->
     MaxCreatedAt(IF rows = <<>> THEN {} ELSE {uploaded}),
   last_conversation |->
     MaxCreatedAt({turns[i].created_at : i \in 1..Len(turns)}),
   database_type |-> "PostgreSQL"]

\* get_database_stats: the dict of the engine in use, or {} when the
\* database raises.
GetDatabaseStats ==
  /\ \/ \E uploaded \in UploadTimes :
          last' = [op |-> "get_database_stats", raised |-> FALSE,
                   result |->
                     IF use_postgres
                       THEN PostgreSQLStats(documents, conversations,
                                            uploaded)
                       ELSE SQLiteStats(documents, conversations)]
     \/ last' = [op |-> "get_database_stats", raised |-> TRUE,
                 result |-> EmptyDict]
  /\ UNCHANGED <<documents, conversations>>
  /\ UNCHANGED <<chunkVars, ragVars, appVars>>

\* get_relevant_context. encode_raises and encoded are the outcome of encode,
\* search_raises tells whether search_similar_chunks met a database error,
\* and recent is the value of get_recent_conversations(2): one of the answers
\* of the query, or [] after a database error. Nothing in the try block
\* raises anything but the ImportError of line 111, so the outer except
\* branch is never taken.
RelevantContext(query, top_k, include_conversation_history, encode_raises, encoded, search_raises, recent) ==
  LET query_embedding == GetEmbedding(query, encode_raises, encoded)
      similar_chunks ==
        SearchOutcome(documents, query_embedding, top_k, search_raises).result
      context_parts == ContextParts(similar_chunks, recent)
      sources == ContextSources(similar_chunks, recent)
      base_context == BaseContext(similar_chunks, recent)
      enhanced == SearchAndEnhance(query, base_context)
  IN
       [op |-> "get_relevant_context", query |-> query, top_k |-> top_k,
        include_conversation_history |-> include_conversation_history,
        search_raised |->
          SearchOutcome(documents, query_embedding, top_k,
                        search_raises).raised,
        similar_chunks |-> similar_chunks,
        recent_conversations |-> recent,
        context |->
          IF web_search_importable THEN enhanced.context
          ELSE IF context_parts # <<>> THEN base_context
          ELSE
         <<"N", "o", " ", "r", "e", "l", "e", "v", "a", "n", "t", " ", "c",
           "o", "n", "t", "e", "x", "t", " ", "f", "o", "u", "n", "d",
           ".">>,
        sources |->
          IF web_search_importable THEN sources \o enhanced.sources
          ELSE sources]

GetRelevantContext(query, top_k, include_conversation_history, encode_raises, encoded, search_raises, recent) ==
  /\ embedding_model = "simple" => ~encode_raises
  /\ IF include_conversation_history
       THEN recent \in RecentConversations(HistoryTurns) \cup {<<>>}
       ELSE recent = <<>>
  /\ last' = RelevantContext(query, top_k, include_conversation_history,
                              encode_raises, encoded, search_raises, recent)
  /\ UNCHANGED <<documents, conversations>>
  /\ UNCHANGED <<chunkVars, ragVars, appVars>>

\* ------------------------------------------------------ retrieval inputs
\* top_k: int = 3 of get_relevant_context; app.py does not pass another.
DefaultTopK == 3

MaxRetrievalDocs == 2

MaxRetrievalConversations == 1

LongContentLen == 450

\* A chunk of the size the chunker produces with chunk_size = 500.
LongContent == [i \in 1..LongContentLen |-> "x"]

\* The rows stored before retrieval. Against the embedding [1, 0, 0, ...] of
\* a query their cosines are 1, 0.9 and 0.3; against the hash embedding of
\* the empty query, which is the zero vector, they are undefined.
RetrievalRows ==
  {[filename |-> <<"a", ".", "t", "x", "t">>, content |-> <<"h", "i", "g", "h">>,
    chunk_index |-> 0, embedding |-> Vec(1, 0, 0, 0)],
   [filename |-> <<"b", ".", "t", "x", "t">>, content |-> LongContent,
    chunk_index |-> 0, embedding |-> Vec(9, 3, 3, 1)],
   [filename |-> <<"a", ".", "t", "x", "t">>, content |-> <<"e", "d", "g", "e">>,
    chunk_index |-> 1, embedding |-> Vec(3, 9, 3, 1)]}

Queries ==
  {<<>>, <<"A", "I">>,

            <<"W", "h", "a", "t", " ", "i", "s", " ", "a", " ", "s", "y", "s",
              "t", "e", "m">>}

\* Chat turns: a short question with an answer of 151 characters.
Turns ==
  {[user_message |-> <<"h", "i">>,
    assistant_response |-> [i \in 1..(AssistantMessageLimit + 1) |-> "r"]]}

\* RAGSystem() and DatabaseManager() on a new database file: the model is
\* the learned one or "simple", as load_embedding_model found it, and the
\* web_search_integration module can be imported or not.
InitRetrieve ==
  /\ text = <<>>
  /\ chunk_size = 500
  /\ chunk_overlap = 50
  /\ pc = "idle"
  /\ start = 0
  /\ chunks = <<>>
  /\ ranges = <<>>
  /\ documents = <<>>
  /\ conversations = <<>>
  /\ last = [op |-> "none"]
  /\ embedding_model \in {"simple", "SentenceTransformer"}
  /\ hash_seed \in HashSeeds
  /\ web_search_importable \in BOOLEAN
  /\ use_postgres = FALSE
  /\ postgres_manager = "unset"
  /\ db_path = "rag_database.db"
  /\ uploads = NoUploads
  /\ web_scraping_available = TRUE

NextRetrieve ==
  \/ \E row \in RetrievalRows :
       /\ Len(documents) < MaxRetrievalDocs
       /\ StoreDocumentChunk(row.filename, row.content, row.chunk_index,
                             row.embedding)
  \/ ClearDocuments
  \/ \E turn \in Turns, later \in BOOLEAN :
       /\ Len(conversations) < MaxRetrievalConversations
       /\ StoreConversation(turn.user_message, turn.assistant_response, <<>>,
                            later)
  \/ \E query \in Queries, top_k \in {DefaultTopK},
        include_conversation_history \in BOOLEAN, encode_raises \in BOOLEAN,
        encoded \in EncodeOutputs, search_raises \in BOOLEAN :
       \E recent \in RecentConversations(HistoryTurns) \cup {<<>>} :
         GetRelevantContext(query, top_k, include_conversation_history,
                            encode_raises, encoded, search_raises, recent)

SpecRetrieve == InitRetrieve /\ [][NextRetrieve]_vars

\* ----------------------------------------------------------- chat history
\* Chat turns that differ: the answer of the first and the question of the
\* second are longer than the lengths the retriever cuts them to.
ChatTurns ==
  {[user_message |-> <<"h", "i">>,
    assistant_response |-> [i \in 1..(AssistantMessageLimit + 1) |-> "r"]],
   [user_message |-> [i \in 1..(UserMessageLimit + 1) |-> "q"],
    assistant_response |-> <<"o", "k">>]}

\* An embedding of another length than the 384 of every query embedding.
ShortEmbedding == [den |-> 1, dim |-> 3, num |-> [i \in {1} |-> 1]]

\* The rows stored before the chat: one whose embedding has the length of
\* the query embeddings, and one whose embedding np.dot rejects.
ChatRows ==
  {row \in RetrievalRows : row.content = <<"h", "i", "g", "h">>}
    \cup {[filename |-> <<"c", ".", "t", "x", "t">>,
           content |-> <<"s", "h", "o", "r", "t">>, chunk_index |-> 0,
           embedding |-> ShortEmbedding]}

\* get_recent_conversations: one of the answers of the query, or [] when
\* sqlite3 raises.
GetRecentConversations(limit) ==
  /\ \/ \E recent \in RecentConversations(limit) :
          last' = [op |-> "get_recent_conversations", limit |-> limit,
                   raised |-> FALSE, result |-> recent]
     \/ last' = [op |-> "get_recent_conversations", limit |-> limit,
                 raised |-> TRUE, result |-> <<>>]
  /\ UNCHANGED <<documents, conversations>>
  /\ UNCHANGED <<chunkVars, ragVars, appVars>>

\* RAGSystem() on the fallback path and DatabaseManager() on a new database
\* file; the web_search_integration module can be imported or not.
InitHistory ==
  /\ text = <<>>
  /\ chunk_size = 500
  /\ chunk_overlap = 50
  /\ pc = "idle"
  /\ start = 0
  /\ chunks = <<>>
  /\ ranges = <<>>
  /\ documents = <<>>
  /\ conversations = <<>>
  /\ last = [op |-> "none"]
  /\ embedding_model = "simple"
  /\ hash_seed = 0
  /\ web_search_importable \in BOOLEAN
  /\ use_postgres \in BOOLEAN
  /\ postgres_manager = (IF use_postgres THEN "initialised" ELSE "unset")
  /\ db_path = (IF use_postgres THEN "unset" ELSE "rag_database.db")
  /\ uploads = NoUploads
  /\ web_scraping_available = TRUE

NextHistory ==
  \/ \E row \in ChatRows :
       /\ documents = <<>>
       /\ StoreDocumentChunk(row.filename, row.content, row.chunk_index,
                             row.embedding)
  \/ ClearDocuments
  \/ \E turn \in ChatTurns, later \in BOOLEAN :
       StoreConversation(turn.user_message, turn.assistant_response, <<>>,
                         later)
  \/ \E limit \in 0..HistoryTurns : GetRecentConversations(limit)
  \/ GetDatabaseStats
  \/ \E query_embedding \in EncodeOutputs :
       SearchSimilarChunks(query_embedding, DefaultTopK)
  \/ \E query \in Queries, include_conversation_history \in BOOLEAN,
        search_raises \in BOOLEAN :
       \E recent \in RecentConversations(HistoryTurns) \cup {<<>>},
          encoded \in EncodeOutputs :
         GetRelevantContext(query, DefaultTopK, include_conversation_history,
                            FALSE, encoded, search_raises, recent)

SpecHistory == InitHistory /\ [][NextHistory]_vars


\* -------------------------------------------------------------- ingestion
RECURSIVE SplitFrom(_, _, _, _)
\* The chunks the while loop of _split_text_into_chunks appends from start
\* st on.
SplitFrom(s, st, size, overlap) ==
  IF st >= Len(s) THEN <<>>
  ELSE LET end == ChunkEnd(s, st, size)
           chunk == Strip(Slice(s, st, end))
       IN (IF chunk # <<>> THEN <<chunk>> ELSE <<>>)
            \o SplitFrom(s, NextStart(end, overlap), size, overlap)

\* _split_text_into_chunks as a function of its argument.
SplitTextIntoChunks(s, size, overlap) ==
  IF Len(s) <= size THEN <<s>> ELSE SplitFrom(s, 0, size, overlap)

\* filename.lower().split('.')[-1]
FileExtension(filename) ==
  LET lowered == Lower(filename)
      dots == {i \in 1..Len(lowered) : lowered[i] = "."}
  IN IF dots = {} THEN lowered
     ELSE SubSeq(lowered, SetMax(dots) + 1, Len(lowered))

\* The extensions process_document extracts text from.
SupportedExtensions ==
  {<<"p", "d", "f">>, <<"t", "x", "t">>, <<"c", "s", "v">>, <<"j", "p", "g">>, <<"j", "p", "e", "g">>, <<"p", "n", "g">>, <<"g", "i", "f">>,
   <<"b", "m", "p">>, <<"t", "i", "f", "f">>}

\* filename[:100] of _url_to_filename
UrlFilenameLimit == 100

\* re.sub(r'^https?://', '', url)
WithoutScheme(url) ==
  IF Take(url, 7) = <<"h", "t", "t", "p", ":", "/", "/">> THEN SubSeq(url, 8, Len(url))
  ELSE IF Take(url, 8) = <<"h", "t", "t", "p", "s", ":", "/", "/">> THEN SubSeq(url, 9, Len(url))
  ELSE url

\* The characters the class [\w\-_\.] matches, among those of the model.
FilenameChars ==
  {UpperCase[i] : i \in 1..26} \cup {LowerCase[i] : i \in 1..26}
    \cup {Digits[i] : i \in 1..10} \cup {"_", "-", "."}

\* _url_to_filename
UrlToFilename(url) ==
  LET rest == WithoutScheme(url)
      cleaned == [i \in 1..Len(rest) |->
                    IF rest[i] \in FilenameChars THEN rest[i] ELSE "_"]
  IN <<"u", "r", "l", "_">> \o Take(cleaned, UrlFilenameLimit) \o <<".", "t", "x", "t">>

\* if not url.startswith(('http://', 'https://')): url = 'https://' + url
WithScheme(url) ==
  IF Take(url, 7) = <<"h", "t", "t", "p", ":", "/", "/">> \/ Take(url, 8) = <<"h", "t", "t", "p", "s", ":", "/", "/">> THEN url
  ELSE <<"h", "t", "t", "p", "s", ":", "/", "/">> \o url

\* The length of the text of the long file, words of nine letters with a
\* space between two: three chunks of at most 500 characters with an overlap
\* of 50.
LongTextLen == 1000

LongText == [i \in 1..LongTextLen |-> IF i % 10 = 0 THEN " " ELSE "x"]

\* The uploaded files: their names and the text extracted from them.
UploadedFiles ==
  {[name |-> <<"a", ".", "T", "X", "T">>, text |-> LongText],
   [name |-> <<"c", ".", "d", "o", "c">>,
    text |-> <<"h", "e", "l", "l", "o">>],
   [name |-> <<"d", ".", "t", "x", "t">>, text |-> <<" ">>]}

\* The URLs typed in, and the text extracted from their pages.
Pages ==
  {[url |-> <<"a", ".", "b", "/", "c">>,
    full_text |-> <<"h", "e", "l", "l", "o">>],
   [url |-> <<"a", ".", "b", "/", "d">>, full_text |-> <<>>]}

\* The calls of process_document and process_url a session makes.
MaxUploads == 1

\* The n-th call of a session returned before its loop.
Returned0(n, result) ==
  [pc |-> "done", n |-> n, filename |-> <<>>, chunks |-> <<>>, i |-> 0,
   stored |-> <<>>, failed |-> <<>>, result |-> result]

\* The call after lines 65-66 (318-321): the loop is entered, or it is over
\* at once when there is no chunk.
Entered(n, filename, full_text) ==
  LET split == SplitTextIntoChunks(full_text, chunk_size, chunk_overlap)
  IN IF split = <<>> THEN Returned0(n, TRUE)
     ELSE [pc |-> "loop", n |-> n, filename |-> filename, chunks |-> split,
           i |-> 0, stored |-> <<>>, failed |-> <<>>]

\* process_document up to its loop.
ProcessDocument(session, uploaded_file) ==
  /\ uploads[session].pc # "loop"
  /\ uploads[session].n < MaxUploads
  /\ uploads' =
       [uploads EXCEPT ![session] =
          IF FileExtension(uploaded_file.name) \notin SupportedExtensions
            THEN Returned0(@.n + 1, FALSE)
          ELSE IF Strip(uploaded_file.text) = <<>>
            THEN Returned0(@.n + 1, FALSE)
          ELSE Entered(@.n + 1, uploaded_file.name, uploaded_file.text)]
  /\ UNCHANGED <<postgres_manager, db_path, web_scraping_available>>
  /\ UNCHANGED <<chunkVars, storeVars, ragVars>>

\* process_url up to its loop.
ProcessUrl(session, url, full_text) ==
  /\ uploads[session].pc # "loop"
  /\ uploads[session].n < MaxUploads
  /\ uploads' =
       [uploads EXCEPT ![session] =
          IF ~web_scraping_available
            THEN Returned0(@.n + 1, FALSE)
          ELSE IF Strip(full_text) = <<>>
            THEN Returned0(@.n + 1, FALSE)
          ELSE Entered(@.n + 1, UrlToFilename(WithScheme(url)), full_text)]
  /\ UNCHANGED <<postgres_manager, db_path, web_scraping_available>>
  /\ UNCHANGED <<chunkVars, storeVars, ragVars>>

\* A loop that goes on with the next chunk after a store that failed.
IngestChunkBug(session) ==
  LET u == uploads[session]
      chunk == u.chunks[u.i + 1]
      embedding == GetEmbedding(chunk, FALSE, ZeroVec)
  IN /\ u.pc = "loop"
     /\ embedding_model = "simple"
     /\ InsertDocumentChunk(u.filename, chunk, u.i, embedding)
     /\ uploads' =
          [uploads EXCEPT ![session] =
             IF u.i + 1 = Len(u.chunks)
               THEN [pc |-> "done", n |-> u.n, filename |-> u.filename,
                     chunks |-> u.chunks, i |-> u.i,
                     stored |-> IF last'.result THEN Append(u.stored, u.i)
                                ELSE u.stored,
                     failed |-> <<>>, result |-> TRUE]
             ELSE [pc |-> "loop", n |-> u.n, filename |-> u.filename,
                   chunks |-> u.chunks, i |-> u.i + 1,
                   stored |-> IF last'.result THEN Append(u.stored, u.i)
                              ELSE u.stored,
                   failed |-> <<>>]]

\* One iteration of the loop of lines 69-80 (324-335): the chunk is embedded
\* and stored, and the call returns False if the store failed and True after
\* the last chunk.
IngestChunk(session) ==
  LET u == uploads[session]
      chunk == u.chunks[u.i + 1]
      embedding == GetEmbedding(chunk, FALSE, ZeroVec)
  IN /\ u.pc = "loop"
     /\ embedding_model = "simple"
     /\ InsertDocumentChunk(u.filename, chunk, u.i, embedding)
     /\ uploads' =
          [uploads EXCEPT ![session] =
             IF ~last'.result
               THEN [pc |-> "done", n |-> u.n, filename |-> u.filename,
                     chunks |-> u.chunks, i |-> u.i, stored |-> u.stored,
                     failed |-> <<u.i>>, result |-> FALSE]
             ELSE IF u.i + 1 = Len(u.chunks)
               THEN [pc |-> "done", n |-> u.n, filename |-> u.filename,
                     chunks |-> u.chunks, i |-> u.i,
                     stored |-> Append(u.stored, u.i), failed |-> <<>>,
                     result |-> TRUE]
             ELSE [pc |-> "loop", n |-> u.n, filename |-> u.filename,
                   chunks |-> u.chunks, i |-> u.i + 1,
                   stored |-> Append(u.stored, u.i), failed |-> <<>>]]

\* DocumentProcessor() of every session on one new database, with the
\* fallback embedding.
InitIngest ==
  /\ text = <<>>
  /\ chunk_size = 500
  /\ chunk_overlap = 50
  /\ pc = "idle"
  /\ start = 0
  /\ chunks = <<>>
  /\ ranges = <<>>
  /\ documents = <<>>
  /\ conversations = <<>>
  /\ last = [op |-> "none"]
  /\ embedding_model = "simple"
  /\ hash_seed = 0
  /\ web_search_importable = TRUE
  /\ use_postgres = FALSE
  /\ postgres_manager = "unset"
  /\ db_path = "rag_database.db"
  /\ uploads = NoUploads
  /\ web_scraping_available = TRUE

NextIngest ==
  \/ \E session \in Sessions, uploaded_file \in UploadedFiles :
       ProcessDocument(session, uploaded_file)
  \/ \E session \in Sessions, page \in Pages :
       ProcessUrl(session, page.url, page.full_text)
  \/ \E session \in Sessions : IngestChunk(session)
  \/ ClearDocuments

SpecIngest == InitIngest /\ [][NextIngest]_vars


\* ------------------------------------------------------------------ embed
MaxTextLen == 3

\* The texts handed to get_embedding: all strings of letters and whitespace
\* up to MaxTextLen.
EmbedTexts == UNION {[1..k -> {"a", "B", " ", "\n"}] : k \in 0..MaxTextLen}

\* get_embedding, called by itself. encode_raises and encoded are the
\* outcome of encode on the learned path. self.embedding_model is never
\* None after load_embedding_model, so line 36 does not raise.
Embed(s, encode_raises, encoded) ==
  /\ embedding_model = "simple" => ~encode_raises
  /\ last' = [op |-> "get_embedding", text |-> s,
              encode_raises |-> encode_raises,
              result |-> GetEmbedding(s, encode_raises, encoded)]
  /\ UNCHANGED <<documents, conversations>>
  /\ UNCHANGED <<chunkVars, ragVars, appVars>>

\* The application is started again: the new process draws a new secret
\* for hash() and loads the same embedding model on the same database.
NewProcess ==
  /\ hash_seed' \in HashSeeds
  /\ last' = [op |-> "start"]
  /\ UNCHANGED <<embedding_model, web_search_importable, use_postgres>>
  /\ UNCHANGED <<documents, conversations>>
  /\ UNCHANGED <<chunkVars, appVars>>

\* RAGSystem() in a new process, with the learned model or "simple".
InitEmbed ==
  /\ text = <<>>
  /\ chunk_size = 500
  /\ chunk_overlap = 50
  /\ pc = "idle"
  /\ start = 0
  /\ chunks = <<>>
  /\ ranges = <<>>
  /\ documents = <<>>
  /\ conversations = <<>>
  /\ last = [op |-> "none"]
  /\ embedding_model \in {"simple", "SentenceTransformer"}
  /\ hash_seed \in HashSeeds
  /\ web_search_importable = TRUE
  /\ use_postgres = FALSE
  /\ postgres_manager = "unset"
  /\ db_path = "rag_database.db"
  /\ uploads = NoUploads
  /\ web_scraping_available = TRUE

NextEmbed ==
  \/ \E s \in EmbedTexts, encode_raises \in BOOLEAN,
        encoded \in EncodeOutputs :
       Embed(s, encode_raises, encoded)
  \/ NewProcess

SpecEmbed == InitEmbed /\ [][NextEmbed]_vars


\* -------------------------------------------------------------- chat loop
MaxChatTurns == 4

\* What the user types into st.chat_input.
ChatPrompts == {<<"h", "i">>, <<"w", "h", "y">>}

\* What generate_response returns.
ChatResponses == {<<"o", "k">>}

\* The chat input handler of app.py, lines 145-190: the context of the
\* prompt is assembled with the default include_conversation_history, the
\* response is generated, and the turn is stored with the context; the
\* value store_conversation returns is not looked at. An exception of
\* generate_response is caught by the handler and nothing is stored.
ChatInput(prompt, response, generate_raises, later, encoded, recent) ==
  LET assembled == RelevantContext(prompt, DefaultTopK, TRUE, FALSE, encoded,
                                   FALSE, recent)
      call == [op |-> "chat", prompt |-> prompt,
               before |-> Len(conversations),
               recent_conversations |-> recent,
               context |-> assembled.context,
               sources |-> assembled.sources]
  IN /\ Len(conversations) < MaxChatTurns
     /\ use_postgres => later
     /\ recent \in RecentConversations(HistoryTurns) \cup {<<>>}
     /\ \/ /\ generate_raises
           /\ conversations' = conversations
           /\ last' = call @@ [stored |-> FALSE, raised |-> TRUE]
        \/ /\ ~generate_raises
           /\ conversations' =
                InsertConversation(prompt, response, assembled.context, later)
           /\ last' = call @@ [stored |-> TRUE, raised |-> FALSE]
        \/ /\ ~generate_raises
           /\ conversations' = conversations
           /\ last' = call @@ [stored |-> FALSE, raised |-> FALSE]
     /\ UNCHANGED documents
     /\ UNCHANGED <<chunkVars, ragVars, appVars>>

\* A session on an empty database, on either engine.
InitChat ==
  /\ text = <<>>
  /\ chunk_size = 500
  /\ chunk_overlap = 50
  /\ pc = "idle"
  /\ start = 0
  /\ chunks = <<>>
  /\ ranges = <<>>
  /\ documents = <<>>
  /\ conversations = <<>>
  /\ last = [op |-> "none"]
  /\ embedding_model = "simple"
  /\ hash_seed = 0
  /\ web_search_importable = TRUE
  /\ use_postgres \in BOOLEAN
  /\ postgres_manager = (IF use_postgres THEN "initialised" ELSE "unset")
  /\ db_path = (IF use_postgres THEN "unset" ELSE "rag_database.db")
  /\ uploads = NoUploads
  /\ web_scraping_available = TRUE

NextChat ==
  \E prompt \in ChatPrompts, response \in ChatResponses,
     generate_raises \in BOOLEAN, later \in BOOLEAN :
    \E encoded \in EncodeOutputs,
       recent \in RecentConversations(HistoryTurns) \cup {<<>>} :
      ChatInput(prompt, response, generate_raises, later, encoded, recent)

SpecChat == InitChat /\ [][NextChat]_vars


\* ----------------------------------------------------------- construction
\* The use_postgres argument of DatabaseManager(): None (the default), True
\* or False.
UsePostgresArguments == {"None", "True", "False"}

\* __init__ has run: one of the two engines is set up.
Constructed == postgres_manager # "unset" \/ db_path # "unset"

\* An __init__ whose except branch leaves self.use_postgres as it is.
NewDatabaseManagerBug(argument, postgres_available, database_url, reachable) ==
  LET requested ==
        IF argument = "None" THEN postgres_available /\ database_url
        ELSE argument = "True"
      manager_raises == ~database_url \/ ~reachable
      call == [op |-> "init", argument |-> argument,
               postgres_available |-> postgres_available,
               database_url |-> database_url, reachable |-> reachable]
  IN /\ ~Constructed
     /\ IF requested /\ postgres_available
          THEN IF manager_raises
                 THEN /\ use_postgres' = TRUE
                      /\ db_path' = "rag_database.db"
                      /\ postgres_manager' = postgres_manager
                 ELSE /\ use_postgres' = TRUE
                      /\ postgres_manager' = "initialised"
                      /\ db_path' = db_path
          ELSE /\ use_postgres' = FALSE
               /\ db_path' = "rag_database.db"
               /\ postgres_manager' = postgres_manager
     /\ last' = call
     /\ UNCHANGED <<documents, conversations>>
     /\ UNCHANGED <<embedding_model, hash_seed, web_search_importable>>
     /\ UNCHANGED <<uploads, web_scraping_available>>
     /\ UNCHANGED chunkVars

\* DatabaseManager.__init__ with db_path left at its default.
\* postgres_available is POSTGRES_AVAILABLE (psycopg2 and postgres_database
\* import), database_url is whether DATABASE_URL is set, and reachable is
\* whether the server accepts the connection and the CREATE statements.
\* PostgreSQLManager() raises without DATABASE_URL and re-raises every
\* error of its init_database.
NewDatabaseManager(argument, postgres_available, database_url, reachable) ==
  LET requested ==
        IF argument = "None" THEN postgres_available /\ database_url
        ELSE argument = "True"
      manager_raises == ~database_url \/ ~reachable
      call == [op |-> "init", argument |-> argument,
               postgres_available |-> postgres_available,
               database_url |-> database_url, reachable |-> reachable]
  IN /\ ~Constructed
     /\ IF requested /\ postgres_available
          THEN IF manager_raises
                 THEN /\ use_postgres' = FALSE
                      /\ db_path' = "rag_database.db"
                      /\ postgres_manager' = postgres_manager
                 ELSE /\ use_postgres' = TRUE
                      /\ postgres_manager' = "initialised"
                      /\ db_path' = db_path
          ELSE /\ use_postgres' = FALSE
               /\ db_path' = "rag_database.db"
               /\ postgres_manager' = postgres_manager
     /\ last' = call
     /\ UNCHANGED <<documents, conversations>>
     /\ UNCHANGED <<embedding_model, hash_seed, web_search_importable>>
     /\ UNCHANGED <<uploads, web_scraping_available>>
     /\ UNCHANGED chunkVars

\* get_database_type
GetDatabaseType ==
  /\ last' = [op |-> "get_database_type",
              result |-> IF use_postgres THEN "PostgreSQL" ELSE "SQLite"]
  /\ UNCHANGED <<documents, conversations>>
  /\ UNCHANGED <<chunkVars, ragVars, appVars>>

\* Before DatabaseManager() is called: no engine is set up.
InitConstruct ==
  /\ text = <<>>
  /\ chunk_size = 500
  /\ chunk_overlap = 50
  /\ pc = "idle"
  /\ start = 0
  /\ chunks = <<>>
  /\ ranges = <<>>
  /\ documents = <<>>
  /\ conversations = <<>>
  /\ last = [op |-> "none"]
  /\ embedding_model = "simple"
  /\ hash_seed = 0
  /\ web_search_importable = TRUE
  /\ use_postgres = FALSE
  /\ postgres_manager = "unset"
  /\ db_path = "unset"
  /\ uploads = NoUploads
  /\ web_scraping_available = TRUE

\* The constructor, then the operations of the constructed manager.
NextConstruct ==
  \/ \E argument \in UsePostgresArguments, postgres_available \in BOOLEAN,
        database_url \in BOOLEAN, reachable \in BOOLEAN :
       NewDatabaseManager(argument, postgres_available, database_url,
                          reachable)
  \/ Constructed /\ GetDatabaseType
  \/ Constructed /\ GetDatabaseStats
  \/ \E turn \in ChatTurns, later \in BOOLEAN :
       /\ Constructed
       /\ StoreConversation(turn.user_message, turn.assistant_response, <<>>,
                            later)
  \/ \E limit \in 0..HistoryTurns :
       Constructed /\ GetRecentConversations(limit)

SpecConstruct == InitConstruct /\ [][NextConstruct]_vars


\* ================================================================= claims

\* --------------------------------------------------------------- chunker
\* The slice of text taken by the iteration that recorded range r.
RangeSlice(r) == Slice(text, r.start, r.end)

\* C1: the chunking loop terminates for every chunk_size > 0 and overlap >= 0:
\* the start position strictly increases from one iteration to the next.
C1_StartStrictlyIncreases ==
  [][(pc = "loop" /\ pc' = "loop") => start' > start]_vars

\* C2: for a non-empty text with len(text) <= chunk_size the chunker returns
\* exactly one chunk, equal to text.strip().
C2_ShortTextIsStripped ==
  (pc = "done" /\ text # <<>> /\ Len(text) <= chunk_size)
    => chunks = <<Strip(text)>>

\* C3: for every text, empty and whitespace-only included, every chunk the
\* chunker returns is a non-empty string.
C3_ChunksNonEmpty ==
  pc = "done" => \A j \in 1..Len(chunks) : chunks[j] # <<>>

\* C4: the ranges [start, end) of the iterations cover the text without gaps:
\* the first starts at 0, each next one starts at or before the end of the one
\* before it, the last one reaches len(text) when the chunker returns, and
\* every character that is not whitespace lies in a returned chunk.
C4_RangesCoverText ==
  /\ ranges # <<>> => ranges[1].start = 0
  /\ \A k \in 2..Len(ranges) : ranges[k].start <= ranges[k - 1].end
  /\ pc = "done" =>
       /\ ranges # <<>>
       /\ ranges[Len(ranges)].end >= Len(text)
       /\ \A i \in 1..Len(text) :
            text[i] \notin Whitespace =>
              \E k \in 1..Len(ranges), j \in 1..Len(chunks) :
                /\ ranges[k].start < i
                /\ i <= ranges[k].end
                /\ \/ chunks[j] = RangeSlice(ranges[k])
                   \/ /\ chunks[j] = Strip(RangeSlice(ranges[k]))
                      /\ (i - ranges[k].start) \in StripSpan(RangeSlice(ranges[k]))

\* C4 witness: a returned run of at least three iterations with an overlap, a
\* boundary snapped back to a period or a space, and a whitespace-only slice
\* that was dropped.
C4_Witness ==
  /\ pc = "done"
  /\ Len(ranges) >= 3
  /\ chunk_overlap >= 1
  /\ \E k \in 1..Len(ranges) : ranges[k].end < ranges[k].start + chunk_size
  /\ Len(chunks) < Len(ranges)
  /\ Len(chunks) >= 2

\* C5: every chunk has length at most chunk_size.
C5_ChunkLengthBounded ==
  \A j \in 1..Len(chunks) : Len(chunks[j]) <= chunk_size

\* C5 witness: a text longer than chunk_size was split in several chunks and
\* one of them has exactly chunk_size characters.
C5_Witness ==
  /\ pc = "done"
  /\ Len(text) > chunk_size
  /\ Len(chunks) >= 2
  /\ \E j \in 1..Len(chunks) : Len(chunks[j]) = chunk_size

\* ----------------------------------------------------------------- search
One == [dot |-> 1, nn |-> 1]

Zero == [dot |-> 0, nn |-> 1]

IsZeroVec(e) == DOMAIN e.num = {}

SearchReturned == last.op = "search_similar_chunks" /\ ~last.raised

\* The cosine score the contract gives row i against the query of the last
\* search: 0 when either vector is the zero vector.
ContractScore(i) ==
  IF IsZeroVec(last.query_embedding) \/ IsZeroVec(documents[i].embedding)
    THEN Zero
    ELSE CosineSimilarity(last.query_embedding, documents[i].embedding)

\* The 1-based place of row i when the rows are ordered by score, highest
\* first, rows of equal score in insertion order.
ContractRank(i) ==
  1 + Cardinality({j \in 1..Len(documents) :
                     \/ FloatLt(ContractScore(i), ContractScore(j))
                     \/ FloatEq(ContractScore(i), ContractScore(j)) /\ j < i})

\* C6: search(query_embedding, top_k) returns the first min(top_k, n) of the
\* n stored chunks sorted by cosine score, highest first, equal scores in
\* insertion order, and the empty sequence on an empty store.
C6_SearchReturnsRankedPrefix ==
  SearchReturned =>
    /\ Len(last.result) = Min(last.top_k, Len(documents))
    /\ \A i \in 1..Len(documents) :
         ContractRank(i) <= Len(last.result) =>
           LET hit == last.result[ContractRank(i)]
           IN /\ hit.filename = documents[i].filename
              /\ hit.content = documents[i].content
              /\ FloatEq(hit.similarity, ContractScore(i))

\* C7: when the query embedding or a stored embedding is the zero vector the
\* similarity of that pair is 0, never nan: no hit carries an undefined score,
\* and every hit of a zero query or of a store of zero vectors scores 0.
C7_ZeroVectorScoresZero ==
  SearchReturned =>
    \A i \in 1..Len(last.result) :
      /\ ~IsNaN(last.result[i].similarity)
      /\ (\/ IsZeroVec(last.query_embedding)
          \/ \A j \in 1..Len(documents) : IsZeroVec(documents[j].embedding))
           => FloatEq(last.result[i].similarity, Zero)

\* The first stored row whose embedding has cosine 1 with e.
FirstParallelRow(e) ==
  SetMin({i \in 1..Len(documents) :
            FloatEq(CosineSimilarity(e, documents[i].embedding), One)})

\* A successful store_document_chunk of a non-zero embedding is followed
\* at once by search_similar_chunks(the same embedding, 1), which returns.
StoreThenSearch ==
  /\ last.op = "store_document_chunk"
  /\ last.result
  /\ ~IsZeroVec(last.embedding)
  /\ last'.op = "search_similar_chunks"
  /\ ~last'.raised
  /\ last'.query_embedding = last.embedding
  /\ last'.top_k = 1

Returned == last.op = "get_relevant_context"

ThreeTenths == [dot |-> 3, nn |-> 100]

\* The score of the hit is strictly greater than 0.3.
AboveThreshold(hit) == FloatGtRatio(hit.similarity, 3, 10)

\* "From {source_id}: {text}"
EntryOf(hit) == <<"F", "r", "o", "m", " ">> \o hit.filename \o <<":", " ">> \o hit.content

\* "{source_id} (similarity: {score:.2f})"
LabelOf(hit) ==
  hit.filename \o <<" ", "(", "s", "i", "m", "i", "l", "a", "r", "i", "t", "y", ":", " ">> \o FormatSimilarity(hit.similarity)
  \o <<")">>

\* The hits of the last retrieval whose score is above 0.3, in rank order.
KeptHits == SelectSeq(last.similar_chunks, AboveThreshold)

\* sources starts with the labels of the kept hits, in rank order, and holds
\* the label of no hit anywhere else.
LabelsAreThoseOfKeptHits ==
  /\ Len(last.sources) >= Len(KeptHits)
  /\ \A i \in 1..Len(KeptHits) : last.sources[i] = LabelOf(KeptHits[i])
  /\ \A j \in (Len(KeptHits) + 1)..Len(last.sources) :
       \A h \in 1..Len(last.similar_chunks) :
         last.sources[j] # LabelOf(last.similar_chunks[h])

\* C9: the retriever keeps a hit if and only if its score is strictly greater
\* than 0.3: the document labels of sources are those of the hits above 0.3,
\* and a hit at 0.3 or lower (or with no score) has its entry nowhere in the
\* body and its label nowhere in sources, while the call returns normally
\* with the other hits.
C9_KeepsHitsAboveThresholdOnly ==
  Returned =>
    /\ LabelsAreThoseOfKeptHits
    /\ \A h \in 1..Len(last.similar_chunks) :
         ~AboveThreshold(last.similar_chunks[h]) =>
           ~Contains(last.context, EntryOf(last.similar_chunks[h]))

\* A retrieval whose search found a hit above 0.3 and a hit at exactly 0.3:
\* the first is in the body and in sources.
C9_Witness ==
  /\ Returned
  /\ Len(last.similar_chunks) = 2
  /\ AboveThreshold(last.similar_chunks[1])
  /\ FloatEq(last.similar_chunks[2].similarity, ThreeTenths)
  /\ Contains(last.context, EntryOf(last.similar_chunks[1]))
  /\ last.sources[1] = LabelOf(last.similar_chunks[1])

\* The entries of the kept hits, in rank order, with a blank line between
\* two of them.
KeptEntries ==
  Join([i \in 1..Len(KeptHits) |-> EntryOf(KeptHits[i])], <<"\n", "\n">>)

\* C10 as stated: for each kept hit, in rank order, the returned body
\* contains its entry with the full text and sources holds its label at the
\* same position; there are as many document labels as entries.
C10_BodyHoldsEveryEntryInFull ==
  Returned =>
    /\ LabelsAreThoseOfKeptHits
    /\ \A i \in 1..Len(KeptHits) :
         Contains(last.context, EntryOf(KeptHits[i]))

\* C10, amended: sources starts with the labels of the kept hits in rank
\* order and holds no other document label; the returned body contains the
\* entries of the kept hits, in rank order and in full, when the augmentation
\* cannot be imported or the query matches no knowledge topic, and otherwise
\* the first 400 characters of these entries.
C10_BodyHoldsEntriesUpToExcerpt ==
  Returned =>
    /\ LabelsAreThoseOfKeptHits
    /\ IF web_search_importable /\ MatchedTopics(Lower(last.query)) # {}
         THEN Contains(last.context, Take(KeptEntries, 400))
         ELSE Contains(last.context, KeptEntries)

\* A retrieval with two kept hits whose entries take more than 400
\* characters, for a query that matches a knowledge topic: both labels are in
\* sources, the body has the first 400 characters and not the rest.
C10_Witness ==
  /\ Returned
  /\ web_search_importable = TRUE
  /\ MatchedTopics(Lower(last.query)) # {}
  /\ Len(KeptHits) = 2
  /\ Len(KeptEntries) > 400
  /\ last.sources[2] = LabelOf(KeptHits[2])
  /\ Contains(last.context, Take(KeptEntries, 400))
  /\ ~Contains(last.context, KeptEntries)

AugmentationLabels ==
  {
            <<"U", "s", "e", "r", " ", "D", "o", "c", "u", "m", "e", "n", "t",
              "s">>,

            <<"I", "n", "t", "e", "r", "n", "a", "l", " ", "K", "n", "o", "w",
              "l", "e", "d", "g", "e", " ", "B", "a", "s", "e">>,

            <<"D", "o", "m", "a", "i", "n", " ", "E", "x", "p", "e", "r", "t",
              "i", "s", "e", " ", "R", "e", "p", "o", "s", "i", "t", "o", "r",
              "y">>,

            <<"B", "e", "s", "t", " ", "P", "r", "a", "c", "t", "i", "c", "e",
              "s", " ", "D", "a", "t", "a", "b", "a", "s", "e">>,

            <<"C", "o", "n", "t", "e", "x", "t", "u", "a", "l", " ", "E", "x",
              "a", "m", "p", "l", "e", "s">>}

\* 1 for the label of a document hit, 2 for "Recent conversations", 3 for a
\* label of the augmentation step, 0 for anything else.
SourceClass(label) ==
  IF \E h \in 1..Len(last.similar_chunks) :
       label = LabelOf(last.similar_chunks[h]) THEN 1
  ELSE IF label =
            <<"R", "e", "c", "e", "n", "t", " ", "c", "o", "n", "v", "e", "r",
              "s", "a", "t", "i", "o", "n", "s">> THEN 2
  ELSE IF label \in AugmentationLabels THEN 3
  ELSE 0

\* C12: in every returned sources list the document labels come first, then
\* "Recent conversations", then the labels of the augmentation step.
C12_SourcesInAssemblyOrder ==
  Returned =>
    /\ \A i \in 1..Len(last.sources) : SourceClass(last.sources[i]) # 0
    /\ \A i, j \in 1..Len(last.sources) :
         i < j => SourceClass(last.sources[i]) <= SourceClass(last.sources[j])

\* A returned sources list with labels of all three kinds.
C12_Witness ==
  /\ Returned
  /\ \A c \in 1..3 :
       \E i \in 1..Len(last.sources) : SourceClass(last.sources[i]) = c
\* ---------------------------------------------------------------- history
\* The two turns stored last, the later one first.
TwoLatestTurns ==
  [i \in 1..2 |->
     [user_message |-> conversations[Len(conversations) + 1 - i].user_message,
      assistant_response |->
        conversations[Len(conversations) + 1 - i].assistant_response]]

\* The offsets at which sub occurs in s.
Occurrences(s, sub) ==
  {o \in 1..(Len(s) - Len(sub) + 1) :
     s[o] = sub[1] /\ SubSeq(s, o, o + Len(sub) - 1) = sub}

\* The number of times the label occurs in the sources.
LabelCount(label) ==
  Cardinality({i \in 1..Len(last.sources) : last.sources[i] = label})

\* The call asked for the history, and get_recent_conversations answered.
HistoryRead ==
  /\ Returned
  /\ last.include_conversation_history
  /\ last.recent_conversations # <<>>

\* C13: when include_history is true and at least two turns are stored, the
\* returned body contains the Previous Q1, A1, Q2, A2 lines of the two turns
\* stored last, the later turn first, each user_message cut to 100 and each
\* assistant_response to 150 characters with the ellipsis appended only when
\* cut, and the sources hold "Recent conversations" exactly once; when no
\* turn is stored the label is absent.
C13_BodyHoldsTwoLatestTurns ==
  /\ (HistoryRead /\ Len(conversations) >= 2) =>
       LET lines == HistoryLines(TwoLatestTurns, 0)
       IN /\ \A i \in 1..4 : Occurrences(last.context, lines[i]) # {}
          /\ \A i \in 1..3 :
               \E o \in Occurrences(last.context, lines[i]) :
                 \E p \in Occurrences(last.context, lines[i + 1]) : o < p
          /\ LabelCount(RecentConversationsLabel) = 1
  /\ (Returned /\ conversations = <<>>) =>
       LabelCount(RecentConversationsLabel) = 0
\* ----------------------------------------------------- augmentation absent
\* The parts collected before the augmentation: the entries of the kept
\* hits, then the heading and the lines of the history that was read.
CollectedParts ==
  [i \in 1..Len(KeptHits) |-> EntryOf(KeptHits[i])]
    \o (IF last.recent_conversations = <<>> THEN <<>>
        ELSE <<
            <<"\n", "R", "e", "c", "e", "n", "t", " ", "c", "o", "n", "v",
              "e", "r", "s", "a", "t", "i", "o", "n", " ", "c", "o", "n", "t",
              "e", "x", "t", ":">>>>
             \o HistoryLines(last.recent_conversations, 0))

\* The sources collected before the augmentation.
CollectedSources ==
  [i \in 1..Len(KeptHits) |-> LabelOf(KeptHits[i])]
    \o (IF last.recent_conversations = <<>> THEN <<>>
        ELSE <<RecentConversationsLabel>>)

\* The module web_search_integration could not be imported.
AugmentationUnavailable == Returned /\ ~web_search_importable

StoredSourceIds == {documents[i].filename : i \in 1..Len(documents)}

\* get_document_count returned the answer of the database.
CountReturned == last.op = "get_document_count" /\ ~last.raised

\* C15: after any sequence of store_chunk and clear_documents calls,
\* document_count() is the number of distinct source_id values among the
\* rows stored at that moment, not the number of rows; it is 0 when called
\* right after a clear_documents() that returned true.
C15_CountsDistinctSourceIds ==
  [][/\ CountReturned' => last'.result = Cardinality(StoredSourceIds')
     /\ (last.op = "clear_documents" /\ last.result /\ CountReturned') =>
          last'.result = 0]_vars

\* A count of 2 returned on a store of three rows.
C15_Witness ==
  /\ CountReturned
  /\ Len(documents) = 3
  /\ last.result = 2
\* ------------------------------------------------------- clear_documents
\* The total_conversations statistic of the engine in use.
TotalConversations ==
  IF use_postgres
    THEN PostgreSQLStats(documents, conversations, 1).total_conversations
    ELSE SQLiteStats(documents, conversations).total_conversations

\* C16: clear_documents deletes every chunk row and leaves the conversation
\* table as it is: the answers of recent_conversations(limit) and the
\* total_conversations statistic are the same before and after the call.
C16_ClearKeepsConversations ==
  [][last'.op = "clear_documents" =>
       /\ last'.result => documents' = <<>>
       /\ conversations' = conversations
       /\ \A limit \in 0..HistoryTurns :
            RecentConversations(limit)' = RecentConversations(limit)
       /\ TotalConversations' = TotalConversations]_vars

\* A clear_documents that returned true on a store that holds two turns.
C16_Witness ==
  /\ last.op = "clear_documents"
  /\ last.result
  /\ documents = <<>>
  /\ Len(conversations) = 2
  /\ TotalConversations = 2
\* ------------------------------------------------------------ store_chunk
\* The row (source_id, text, chunk_index, embedding) of the store_chunk call
\* recorded in r.
RowOf(r) ==
  [filename |-> r.filename, content |-> r.content,
   chunk_index |-> r.chunk_index, embedding |-> r.embedding]

\* C17: store_chunk returns to its caller in every case: it returns true
\* exactly when one new row with the given source_id, text, chunk_index and
\* embedding has been appended, and when it fails inside it returns false
\* and the stored rows are unchanged.
C17_StoreReturnsTrueIffAppended ==
  [][last'.op = "store_document_chunk" =>
       /\ last'.result \in BOOLEAN
       /\ last'.result <=> (documents' = Append(documents, RowOf(last')))
       /\ ~last'.result => documents' = documents]_vars

\* A store_chunk that returned true and whose row is the last of the two
\* different rows of the store.
C17_Witness ==
  /\ last.op = "store_document_chunk"
  /\ last.result
  /\ Len(documents) = 2
  /\ documents[2] = RowOf(last)
  /\ documents[1] # documents[2]
\* ----------------------------------------------------------- search errors
\* Some stored embedding has another length than the array a.
LengthDiffers(a) ==
  \E i \in 1..Len(documents) : documents[i].embedding.dim # a.dim

\* The answer of a retrieval that has no hit: the history that was read,
\* handed to the augmentation when it can be imported.
NoHitContext ==
  IF web_search_importable
    THEN SearchAndEnhance(last.query,
                          Join(CollectedParts, <<"\n", "\n">>)).context
    ELSE IF CollectedParts # <<>> THEN Join(CollectedParts, <<"\n", "\n">>)
    ELSE
            <<"N", "o", " ", "r", "e", "l", "e", "v", "a", "n", "t", " ", "c",
              "o", "n", "t", "e", "x", "t", " ", "f", "o", "u", "n", "d",
              ".">>

\* The sources of a retrieval that has no hit.
NoHitSources ==
  CollectedSources
    \o (IF web_search_importable
          THEN SearchAndEnhance(last.query,
                                Join(CollectedParts, <<"\n", "\n">>)).sources
          ELSE <<>>)

\* C18: an error raised while searching, a failed read of the store or a
\* stored embedding of another length than the query embedding, is caught in
\* search, which returns the empty sequence; the retriever then goes on as
\* with no hits, and relevant_context returns a body and sources.
C18_SearchErrorGivesNoHits ==
  /\ last.op = "search_similar_chunks" =>
       /\ LengthDiffers(last.query_embedding) => last.raised
       /\ last.raised => last.result = <<>>
  /\ Returned =>
       /\ LengthDiffers(SimpleTextEmbedding(hash_seed, last.query)) =>
            last.search_raised
       /\ last.search_raised =>
            /\ last.similar_chunks = <<>>
            /\ last.context = NoHitContext
            /\ last.sources = NoHitSources
            /\ \A i \in 1..Len(documents) :
                 ~Contains(last.context, documents[i].content)

\* A retrieval on a store whose only row has an embedding of three elements:
\* the search failed, and the call returned a body without the row.
C18_Witness ==
  /\ Returned
  /\ LengthDiffers(SimpleTextEmbedding(hash_seed, last.query))
  /\ last.search_raised
  /\ last.similar_chunks = <<>>
  /\ last.context # <<>>
  /\ last.sources # <<>>
\* ------------------------------------------------------ recent_conversations
\* The turn stored as the k-th last.
LatestTurn(k) ==
  [user_message |-> conversations[Len(conversations) + 1 - k].user_message,
   assistant_response |->
     conversations[Len(conversations) + 1 - k].assistant_response]

\* C19: recent_conversations(limit) returns at most limit turns in strict
\* reverse insertion order, the turn stored later before the turn stored
\* earlier, also when both were stored within one tick of the timestamp.
C19_RecentInReverseInsertionOrder ==
  (last.op = "get_recent_conversations" /\ ~last.raised) =>
    /\ Len(last.result) = Min(last.limit, Len(conversations))
    /\ \A k \in 1..Len(last.result) : last.result[k] = LatestTurn(k)
\* ------------------------------------------------------------ two engines
\* The dicts get_database_stats of the other engine can return on the rows
\* and turns stored.
OtherEngineStats ==
  IF use_postgres THEN {SQLiteStats(documents, conversations)}
  ELSE {PostgreSQLStats(documents, conversations, uploaded) :
          uploaded \in UploadTimes}

\* C20: the SQLite store and the PostgreSQL store answer every call alike
\* after the same calls: stats returns a dict of the same keys and values as
\* the other engine's, and recent_conversations the sequence the other
\* engine returns, which on PostgreSQL is the turns stored last, latest
\* first.
C20_EnginesAnswerAlike ==
  /\ (last.op = "get_database_stats" /\ ~last.raised) =>
       \E other \in OtherEngineStats :
         /\ DOMAIN last.result = DOMAIN other
         /\ \A key \in DOMAIN other : last.result[key] = other[key]
  /\ (last.op = "get_recent_conversations" /\ ~last.raised) =>
       last.result =
         [k \in 1..Min(last.limit, Len(conversations)) |-> LatestTurn(k)]
\* -------------------------------------------------------------- ingestion
\* C21: in every state of the store, no two chunk rows have the same
\* (source_id, chunk_index) pair, also after the same file or the same URL
\* was ingested more than once.
C21_SourceAndIndexIdentifyRow ==
  \A i, j \in 1..Len(documents) :
    (/\ documents[i].filename = documents[j].filename
     /\ documents[i].chunk_index = documents[j].chunk_index) => i = j
\* ------------------------------------------------------------- row lifetime
\* C22: a chunk row, once stored, keeps its source_id, chunk_index, text and
\* embedding in every later state until a clear_documents removes it: a step
\* either keeps every row as it is, or is a clear_documents that removes all
\* rows at once.
C22_RowsKeptUntilClear ==
  [][\/ /\ Len(documents') >= Len(documents)
        /\ SubSeq(documents', 1, Len(documents)) = documents
     \/ /\ documents' = <<>>
        /\ last'.op = "clear_documents"
        /\ last'.result]_vars

\* Three rows of one source, all there after a later count.
C22_Witness ==
  /\ Len(documents) = 3
  /\ last.op = "get_document_count"
  /\ ~last.raised
  /\ last.result = 1
\* ------------------------------------------------------ partial ingestion
\* The chunk_index values of the rows stored under the source.
StoredIndexes(filename) ==
  {documents[k].chunk_index :
     k \in {j \in 1..Len(documents) : documents[j].filename = filename}}

\* The step is the iteration of the session in which the store of its chunk
\* failed.
StoreFailedFor(session) ==
  /\ uploads[session].pc = "loop"
  /\ uploads'[session] # uploads[session]
  /\ last'.op = "store_document_chunk"
  /\ ~last'.result

\* C23: when storing chunk i of a document fails during ingestion, the call
\* stops and returns false, chunks 0..i-1 of the document stay stored, with
\* no rollback, and the ingestion stores no chunk of an index above i: it
\* has stored exactly the chunks 0..i-1 and makes no further step, until
\* the session makes its next call.
C23_FailedChunkStopsIngestion ==
  [][\A session \in Sessions :
       /\ StoreFailedFor(session) =>
            /\ uploads'[session].pc = "done"
            /\ uploads'[session].result = FALSE
            /\ uploads'[session].failed = <<uploads[session].i>>
            /\ uploads'[session].stored =
                 [k \in 1..uploads[session].i |-> k - 1]
            /\ documents' = documents
       /\ (uploads[session].pc = "done" /\ uploads[session].failed # <<>>) =>
            \/ uploads'[session] = uploads[session]
            \/ uploads'[session].n > uploads[session].n]_vars

\* An ingestion that failed at chunk 1 and returned false: chunk 0 of its
\* document is stored, chunks 1 and 2 are not.
C23_Witness ==
  \E session \in Sessions :
    /\ uploads[session].pc = "done"
    /\ uploads[session].result = FALSE
    /\ uploads[session].failed = <<1>>
    /\ Len(uploads[session].chunks) = 3
    /\ StoredIndexes(uploads[session].filename) = {0}
\* C29: in every state of the store, under every interleaving of one
\* session's process_document with another session's clear_documents or
\* process_document, the chunk_index values stored for each source_id are
\* 0, 1, ..., n - 1 for some n: no missing prefix and no hole.
C29_IndexesContiguousFromZero ==
  \A k \in 1..Len(documents) :
    LET indexes == StoredIndexes(documents[k].filename)
    IN indexes = 0..(Cardinality(indexes) - 1)
\* ------------------------------------------------------------------ embed
\* get_embedding took the fallback path: the model is "simple", or encode
\* raised.
FallbackUsed ==
  /\ last.op = "get_embedding"
  /\ (embedding_model = "simple" \/ last.encode_raises)

\* The text has no character other than whitespace.
IsBlank(s) == \A i \in 1..Len(s) : s[i] \in Whitespace

\* C24: embed returns a vector of the fixed length 384 for every text, the
\* empty and the whitespace-only ones included, on the fallback path and
\* when encode of the learned model throws, in which case the vector is the
\* fallback hash embedding of the same text.
C24_EmbedReturnsFixedLength ==
  last.op = "get_embedding" =>
    /\ last.result.dim = 384
    /\ \A i \in DOMAIN last.result.num : i \in 1..384
    /\ FallbackUsed => last.result = SimpleTextEmbedding(hash_seed, last.text)
    /\ (FallbackUsed /\ IsBlank(last.text)) => DOMAIN last.result.num = {}

\* encode threw on a whitespace-only text of two characters, and the call
\* returned the vector of 384 zeros.
C24_Witness ==
  /\ last.op = "get_embedding"
  /\ embedding_model # "simple"
  /\ last.encode_raises
  /\ Len(last.text) = 2
  /\ IsBlank(last.text)
  /\ last.result = ZeroVec

\* C25: on the fallback path the vector of a text is the same in every call
\* and in every process run: it does not depend on the secret that keys
\* hash() in the process that computes it.
C25_FallbackVectorSameInEveryRun ==
  FallbackUsed =>
    \A seed \in HashSeeds : last.result = SimpleTextEmbedding(seed, last.text)
\* ---------------------------------------------------------------- boundary
\* The 0-based indexes from lo up to the candidate end of iteration r that
\* hold ch.
InWindow(r, ch, lo) ==
  {j \in lo..(r.start + chunk_size - 1) : j < Len(text) /\ text[j + 1] = ch}

\* Iteration i ran with a candidate end before the end of the text.
Snaps(i) ==
  /\ Len(text) > chunk_size
  /\ ranges[i].start + chunk_size < Len(text)

\* The end of iteration r when the periods and spaces are looked for from lo.
SnappedEnd(r, lo) ==
  IF InWindow(r, ".", lo) # {} THEN SetMax(InWindow(r, ".", lo)) + 1
  ELSE IF InWindow(r, " ", lo) # {} THEN SetMax(InWindow(r, " ", lo))
  ELSE r.start + chunk_size

\* C26 as stated: with a candidate end before the end of the text, the
\* chunk ends just after the last period of the window start..end-1 if the
\* window holds one, else at its last space if it holds one, else at the
\* candidate end.
C26_EndSnapsToLastPeriodOrSpace ==
  \A i \in DOMAIN ranges :
    Snaps(i) => ranges[i].end = SnappedEnd(ranges[i], ranges[i].start)

\* C26 amended: the period and the space are looked for strictly after
\* start; a period or space at start itself is not a boundary. The period
\* wins over a later space, and the end is never past the candidate end.
C26_EndSnapsToLastPeriodOrSpaceAfterStart ==
  \A i \in DOMAIN ranges :
    Snaps(i) =>
      /\ ranges[i].end = SnappedEnd(ranges[i], ranges[i].start + 1)
      /\ ranges[i].end <= ranges[i].start + chunk_size
      /\ ranges[i].end > ranges[i].start

\* An iteration whose window holds a period after start and a space after
\* the period, cut just after the period.
C26_Witness ==
  \E i \in DOMAIN ranges :
    /\ Snaps(i)
    /\ InWindow(ranges[i], ".", ranges[i].start + 1) # {}
    /\ InWindow(ranges[i], " ", ranges[i].start + 1) # {}
    /\ SetMax(InWindow(ranges[i], " ", ranges[i].start + 1)) >
         SetMax(InWindow(ranges[i], ".", ranges[i].start + 1))
    /\ ranges[i].end = SetMax(InWindow(ranges[i], ".", ranges[i].start + 1)) + 1
\* ------------------------------------------------------------- user label
\* C28: the returned sources hold the label "User Documents" only if at
\* least one document hit passed the similarity threshold; a context made
\* of conversation history alone never produces the label.
C28_UserDocumentsLabelNeedsHit ==
  (Returned /\ \E i \in DOMAIN last.sources : last.sources[i] = UserDocuments)
    => KeptHits # <<>>
\* ------------------------------------------------------------ chat window
\* The question and answer of the row stored k-th.
StoredTurn(k) ==
  [user_message |-> conversations[k].user_message,
   assistant_response |-> conversations[k].assistant_response]

\* The positions of the two rows stored most recently before the turn of
\* the last chat input.
TwoBefore == {k \in 1..last.before : k >= last.before - 1}

\* C27: the context assembled for a chat turn reads only the two turns
\* stored most recently before it: not its own question and answer, and no
\* turn older than those two.
C27_ContextReadsTwoTurnsBefore ==
  last.op = "chat" =>
    \A i \in DOMAIN last.recent_conversations :
      \E k \in TwoBefore : StoredTurn(k) = last.recent_conversations[i]
\* ------------------------------------------------------------ construction
\* The engine that was set up by the constructor.
EngineInUse ==
  IF postgres_manager = "initialised" THEN "PostgreSQL" ELSE "SQLite"

\* PostgreSQL was missing, unconfigured or unreachable when the constructor
\* ran.
PostgresUnusable ==
  ~last.postgres_available \/ ~last.database_url \/ ~last.reachable

\* C30: the constructor completes whatever the state of PostgreSQL; when
\* PostgreSQL is missing, unconfigured or unreachable it sets up SQLite;
\* afterwards use_postgres holds only with an initialised PostgreSQL
\* manager, exactly one engine is set up, and get_database_type and
\* get_database_stats name that engine.
C30_ConstructionFallsBackToSQLite ==
  /\ last.op = "init" =>
       /\ Constructed
       /\ PostgresUnusable => (~use_postgres /\ db_path = "rag_database.db")
  /\ Constructed =>
       /\ use_postgres <=> postgres_manager = "initialised"
       /\ ~use_postgres <=> db_path # "unset"
  /\ last.op = "get_database_type" => last.result = EngineInUse
  /\ (last.op = "get_database_stats" /\ ~last.raised) =>
       last.result.database_type = EngineInUse

\* The constructor was called with use_postgres=True while the server was
\* unreachable, and fell back.
C30_Witness ==
  /\ last.op = "init"
  /\ last.argument = "True"
  /\ last.postgres_available
  /\ last.database_url
  /\ ~last.reachable
  /\ ~use_postgres

====
